---------------------------- MODULE Spec2Model ----------------------------
(***************************************************************************)
(* Distributed BSP shortest-path engine (round-robin partitioned           *)
(* Bellman-Ford relaxation over MPI collectives), its Graph store, its     *)
(* Partitioner and the sequential Dijkstra oracle.                         *)
(*                                                                         *)
(* Distances are IEEE doubles in the program.  The model uses integer      *)
(* weights, so that sums are exact, and a separate value for +infinity.    *)
(***************************************************************************)
EXTENDS Integers, Sequences, FiniteSets, TLC

\* ------------------------------------------------------------------------
\* Bounds of the model
\* ------------------------------------------------------------------------

\* largest node count of a graph file given to the engine
MaxNodes == 3
\* largest number of edge lines of a graph file given to the engine
MaxEdges == 3
\* largest edge weight of a graph file (weights are 0..MaxWeight)
MaxWeight == 1
\* largest number of MPI processes
MaxProcs == 3
\* most negative edge weight of the files of SpecNeg is -NegWeight
NegWeight == 1
\* largest number of edge lines of the files of SpecNeg
MaxNegEdges == 2
\* largest node count of the graphs of SpecChain
MaxChain == 4
\* largest number a token of the files of SpecGraph holds (a node count, an
\* edge count, a node id or a weight)
MaxFileNodes == 1
\* largest number of tokens of the files of SpecGraph
MaxTokens == 5
\* largest node count a Graph of SpecGraph is constructed with
MaxGraphNodes == 2
\* addEdge is called in SpecGraph while the Graph holds fewer edges
MaxGraphEdges == 2
\* largest loop count an uninitialised numEdges stands for
MaxIndeterminateEdges == 1
\* largest node count and process count of SpecPartition
MaxPartNodes == 7
MaxPartProcs == 4

\* node coordinates are 0 or MaxCoord
MaxCoord == 2

\* ------------------------------------------------------------------------
\* double values: finite numbers and +infinity
\* ------------------------------------------------------------------------

Infinity == [inf |-> TRUE, val |-> 0]

Fin(x) == [inf |-> FALSE, val |-> x]

IsInf(d) == d.inf

\* a < b on doubles (operator< of the relaxation test)
DLess(a, b) == (~a.inf) /\ (b.inf \/ a.val < b.val)

DLeq(a, b) == b.inf \/ ((~a.inf) /\ a.val <= b.val)

\* a + w for a double a and a finite weight w
DPlus(a, w) == IF a.inf THEN Infinity ELSE Fin(a.val + w)

\* the smaller of two doubles (MPI_MIN on one element)
DMin(a, b) == IF DLess(b, a) THEN b ELSE a

\* ------------------------------------------------------------------------
\* Graph (Graph.h)
\* ------------------------------------------------------------------------

Edge(dest, w) == [destination |-> dest, weight |-> w]

\* Graph::Graph(numNodes): nodes 0..numNodes-1 with empty adjacency lists
Graph(numNodes) ==
    [nodeCount |-> numNodes,
     edgeCount |-> 0,
     nodes     |-> [i \in 0..(numNodes - 1) |-> <<>>]]

getNodeCount(g) == g.nodeCount

getEdgeCount(g) == g.edgeCount

getAdjacencyList(g, nodeId) == g.nodes[nodeId]

\* Graph::setNodeCount: nodeCount = n; nodes.resize(n) keeps the adjacency
\* lists of the nodes that remain and gives new nodes an empty list;
\* edgeCount is not touched.
setNodeCount(g, n) ==
    [nodeCount |-> n,
     edgeCount |-> g.edgeCount,
     nodes     |-> [i \in 0..(n - 1) |->
                       IF i \in DOMAIN g.nodes THEN g.nodes[i] ELSE <<>>]]

\* Node::Node(): x(0.0), y(0.0)
Origin == [x |-> 0, y |-> 0]

\* the coordinates of the nodes of a Graph just constructed
Coordinates(numNodes) == [i \in 0..(numNodes - 1) |-> Origin]

\* nodes.resize(n) in Graph::setNodeCount: the nodes that remain keep their
\* coordinates, new nodes are at the origin
resizeCoordinates(c, n) ==
    [i \in 0..(n - 1) |-> IF i \in DOMAIN c THEN c[i] ELSE Origin]

\* mutant: the upper end of the range is let in
InRangeInclusive(g, id) == id >= 0 /\ id <= g.nodeCount

\* the range test of Graph::addEdge
InRange(g, id) == id >= 0 /\ id < g.nodeCount

\* Graph::setNodeCoordinates on the coordinates c of g: sets x and y of a
\* node in range and does nothing otherwise
setNodeCoordinates(g, c, nodeId, x, y) ==
    IF InRange(g, nodeId) THEN [c EXCEPT ![nodeId] = [x |-> x, y |-> y]] ELSE c

\* std::sqrt of a perfect square
Sqrt(n) == CHOOSE k \in 0..n : k * k = n

\* Graph::getHeuristic: the Euclidean distance of two nodes in range, 0.0
\* when one is out of range
getHeuristic(g, c, fromNode, toNode) ==
    IF ~InRange(g, fromNode) \/ ~InRange(g, toNode) THEN 0
    ELSE LET dx == c[fromNode].x - c[toNode].x
             dy == c[fromNode].y - c[toNode].y
         IN  Sqrt(dx * dx + dy * dy)

\* Graph::addEdge: appends (to, weight) to from's list when both endpoints
\* are in range, and does nothing otherwise.
addEdge(g, from, to, weight) ==
    IF InRange(g, from) /\ InRange(g, to)
    THEN [g EXCEPT !.nodes[from] = Append(@, Edge(to, weight)),
                   !.edgeCount = @ + 1]
    ELSE g

\* Graph::addBidirectionalEdge: addEdge(from, to), then addEdge(to, from)
addBidirectionalEdge(g, from, to, weight) ==
    addEdge(addEdge(g, from, to, weight), to, from, weight)

RECURSIVE addEdges(_, _, _)
\* the edge loop of Graph::loadFromFile over the edge lines from index i
addEdges(g, lines, i) ==
    IF i > Len(lines) THEN g
    ELSE addEdges(addEdge(g, lines[i].from, lines[i].to, lines[i].weight),
                  lines, i + 1)

\* Graph::loadFromFile on a well-formed, readable file: the header's node
\* count, then one addEdge per edge line.
loadFromFile(g, file) == addEdges(setNodeCount(g, file.numNodes), file.lines, 1)

\* A file as std::ifstream reads it: whether it can be opened, and its
\* whitespace-separated tokens, each a number or a word that is no number.
Num(x) == [num |-> TRUE, val |-> x]

Word == [num |-> FALSE, val |-> 0]

\* "file >> x" on the stream st (the unread tokens, and good = no failbit or
\* eofbit so far).  A stream that has failed leaves x untouched (set is
\* FALSE); a good stream at the end of the file or before a word fails and
\* writes 0 to x (C++11); otherwise x is the number read.
Extract(st) ==
    IF ~st.good THEN [set |-> FALSE, val |-> 0, st |-> st]
    ELSE IF st.tokens = <<>> \/ ~Head(st.tokens).num
         THEN [set |-> TRUE, val |-> 0, st |-> [st EXCEPT !.good = FALSE]]
    ELSE [set |-> TRUE, val |-> Head(st.tokens).val,
          st |-> [st EXCEPT !.tokens = Tail(@)]]

\* the values an uninitialised int or double that no extraction wrote may
\* hold, as far as addEdge tells them apart: out of range below, a node id,
\* out of range above
IndeterminateValues == (0 - 1)..MaxFileNodes

\* the loop counts an uninitialised numEdges may stand for (a negative one
\* runs the loop as often as 0 does)
IndeterminateCounts == 0..MaxIndeterminateEdges

\* the values the variable of an extraction holds afterwards
ValuesOf(x, indeterminate) == IF x.set THEN {x.val} ELSE indeterminate

RECURSIVE ReadEdges(_, _, _)
\* the edge loop of Graph::loadFromFile on the stream st with n iterations
\* to go: from, to and weight are declared without a value in each
\* iteration, extracted, and handed to addEdge whether or not the
\* extractions succeeded.  The Graphs the loop can end with.
ReadEdges(g, st, n) ==
    IF n <= 0 THEN {g}
    ELSE LET from == Extract(st)
             to == Extract(from.st)
             weight == Extract(to.st)
         IN  UNION {ReadEdges(addEdge(g, x[1], x[2], x[3]), weight.st, n - 1) :
                    x \in ValuesOf(from, IndeterminateValues)
                          \X ValuesOf(to, IndeterminateValues)
                          \X ValuesOf(weight, IndeterminateValues)}

\* Graph::loadFromFile on any file: false, and nothing else, when the file
\* cannot be opened; otherwise the header is extracted without a test of
\* the stream, setNodeCount, the edge loop, and true.  The outcomes it can
\* have: what it returns and the Graph afterwards.
loadFromFileStream(g, file) ==
    IF ~file.opened THEN {[ret |-> FALSE, graph |-> g]}
    ELSE LET numNodes == Extract([tokens |-> file.tokens, good |-> TRUE])
             numEdges == Extract(numNodes.st)
         IN  {[ret |-> TRUE, graph |-> h] :
              h \in UNION {ReadEdges(setNodeCount(g, numNodes.val),
                                     numEdges.st, n) :
                           n \in ValuesOf(numEdges, IndeterminateCounts)}}

\* ------------------------------------------------------------------------
\* Partitioner (Partitioner.h)
\* ------------------------------------------------------------------------

RECURSIVE RoundRobinLoop(_, _, _, _)
\* for (node = myRank; node < nodeCount; node += totalProcesses) push_back
RoundRobinLoop(partition, node, nodeCount, totalProcesses) ==
    IF node < nodeCount
    THEN RoundRobinLoop(Append(partition, node), node + totalProcesses,
                        nodeCount, totalProcesses)
    ELSE partition

\* mutant: every rank starts at node 0
getRoundRobinPartitionFromZero(g, myRank, totalProcesses) ==
    RoundRobinLoop(<<>>, 0, getNodeCount(g), totalProcesses)

getRoundRobinPartition(g, myRank, totalProcesses) ==
    RoundRobinLoop(<<>>, myRank, getNodeCount(g), totalProcesses)

\* mutant: the owner is counted from the next node
getNodeOwnerShifted(nodeId, totalProcesses) ==
    (nodeId + 1) % totalProcesses

\* return nodeId % totalProcesses
getNodeOwnerRoundRobin(nodeId, totalProcesses) == nodeId % totalProcesses

\* the elements of a sequence (unordered_set<int> myNodes of main)
Range(s) == {s[i] : i \in DOMAIN s}

\* ------------------------------------------------------------------------
\* State of the distributed engine (main)
\* ------------------------------------------------------------------------

VARIABLES
    graph,               \* the Graph every process loaded (identical copies)
    source,              \* atoi(argv[2])
    size,                \* MPI_Comm_size
    myPartition,         \* per rank: vector<int> myPartition
    pc,                  \* per rank: where the process is
    released,            \* ranks whose pending collective has completed and
                         \* that have not returned from it yet
    distances,           \* per rank: vector<double> distances
    globalDistances,     \* per rank: vector<double> globalDistances (recvbuf)
    iteration,           \* per rank: the loop variable
    iterationsCompleted, \* per rank
    edgesRelaxed,        \* per rank
    localUpdates,        \* per rank
    localChanged,        \* per rank
    localFlag,           \* per rank: sendbuf of the flag reduction
    globalFlag,          \* per rank: recvbuf of the flag reduction
    pi,                  \* per rank: index into myPartition of the node u
    ei,                  \* per rank: index into u's adjacency list
    loopExit,            \* per rank: how the superstep loop was left
    totalEdgesRelaxed,   \* rank 0: recvbuf of the first MPI_Reduce
    totalLocalUpdates,   \* rank 0: recvbuf of the second MPI_Reduce
    maxIterations_global,\* rank 0: recvbuf of the third MPI_Reduce
    startDistances,      \* per rank: its array when its current superstep
                         \* began
    localBefore,         \* the sendbufs of the last completed MPI_MIN
                         \* reduction, one array per rank
    call,                \* the last call of a Graph method made directly on
                         \* graph: its arguments, the Graph before the call
                         \* and what it returned
    coordinates,         \* the x and y of the nodes setNodeCoordinates was
                         \* called for; every other node is at (0, 0)
    argc,                \* the argument count main was started with
    mailbox,             \* per rank: the point-to-point messages sent to it
                         \* and not yet received, each with its tag and sender
    bcast,               \* per rank: where it is with the MPI_Bcast of the
                         \* terminate signal: "idle", "inBcast" or "done"
    checkResult,         \* per rank: what its last checkTerminate returned
    output               \* per rank: what the process has written to cout
                         \* and cerr, in order

\* PathResult::PathResult(): nothing found, totalDistance +infinity, an
\* empty path
PathResult == [found |-> FALSE, totalDistance |-> Infinity, path |-> <<>>]

\* no Graph method and no reference algorithm has been called directly
NoCall ==
    [op |-> "none", from |-> 0, to |-> 0, weight |-> 0,
     file |-> [opened |-> FALSE, tokens |-> <<>>],
     before |-> Graph(0), ret |-> TRUE, result |-> PathResult]

vars == <<graph, source, size, myPartition, pc, released, distances,
          globalDistances, iteration, iterationsCompleted, edgesRelaxed,
          localUpdates, localChanged, localFlag, globalFlag, pi, ei, loopExit,
          totalEdgesRelaxed, totalLocalUpdates, maxIterations_global,
          localBefore, startDistances, call, coordinates, argc, output,
          mailbox, bcast, checkResult>>

\* what no step of the engine changes
\* the state of the messaging layer
msgVars == <<mailbox, bcast, checkResult>>

graphVars ==
    <<graph, call, coordinates, argc, source, size, myPartition, msgVars>>

statVars == <<totalEdgesRelaxed, totalLocalUpdates, maxIterations_global>>

Ranks == 0..(size - 1)

nodeCount == getNodeCount(graph)

NodeIds == 0..(nodeCount - 1)

\* mutant: half the cap, rounded up
maxIterationsHalf == (nodeCount + 1) \div 2

\* mutant: one superstep more than the cap
maxIterationsPlusOne == nodeCount + 1

\* mutant: one superstep less than the cap
maxIterationsMinusOne == nodeCount - 1

\* int maxIterations = nodeCount
maxIterations == nodeCount

\* mutant: a value-initialised vector
ZeroArray == [n \in NodeIds |-> Fin(0)]

\* vector<double>(nodeCount, infinity)
InfArray == [n \in NodeIds |-> Infinity]

\* mutant: the zero is written to node 0
SetSourceAtZero(r, d) ==
    IF source \in Range(myPartition[r]) THEN [d EXCEPT ![0] = Fin(0)]
    ELSE d

\* mutant: every process writes the zero, owner or not
SetSourceAlways(r, d) == [n \in DOMAIN d |-> IF n = source THEN Fin(0) ELSE d[n]]

\* if (myNodes.count(source)) distances[source] = 0.0
SetSource(r, d) ==
    IF source \in Range(myPartition[r]) THEN [d EXCEPT ![source] = Fin(0)]
    ELSE d

\* ------------------------------------------------------------------------
\* The local relax loop
\* ------------------------------------------------------------------------

RECURSIVE NextPosFirstEdge(_, _, _, _)
\* mutant: only the first edge of each adjacency list is examined
NextPosFirstEdge(d, part, p, e) ==
    IF p > Len(part) THEN [pi |-> Len(part) + 1, ei |-> 1]
    ELSE IF IsInf(d[part[p]]) THEN NextPosFirstEdge(d, part, p + 1, 1)
    ELSE IF e > Len(getAdjacencyList(graph, part[p])) \/ e > 1
         THEN NextPosFirstEdge(d, part, p + 1, 1)
    ELSE [pi |-> p, ei |-> e]

RECURSIVE NextPos(_, _, _, _)
\* The next edge the loops "for (int u : myPartition)" and "for (const
\* Edge& e : adjacency(u))" examine, searching from entry p of the partition
\* and entry e of its adjacency list: nodes whose distance is infinity are
\* skipped (continue), exhausted lists move to the next node.  p beyond the
\* partition means that the outer loop has ended.
NextPos(d, part, p, e) ==
    IF p > Len(part) THEN [pi |-> Len(part) + 1, ei |-> 1]
    ELSE IF IsInf(d[part[p]]) THEN NextPos(d, part, p + 1, 1)
    ELSE IF e > Len(getAdjacencyList(graph, part[p]))
         THEN NextPos(d, part, p + 1, 1)
    ELSE [pi |-> p, ei |-> e]

\* mutant: the weight is left out
NewDistNoWeight(du, w) == du

\* mutant: the candidate is one less than the weight of the path
NewDistMinusOne(du, w) == DPlus(du, w - 1)

\* double newDist = distances[u] + e.weight
NewDist(du, w) == DPlus(du, w)

\* mutant: the comparison is missing
ImprovesAlways(newDist, dv) == TRUE

\* mutant: the comparison is <=
ImprovesOrEqual(newDist, dv) == DLeq(newDist, dv)

\* if (newDist < distances[v])
Improves(newDist, dv) == DLess(newDist, dv)

\* mutant: a process that finds no edge to examine skips the distance
\* reduction of the superstep
LoopTopSkipSync(r, it, d) ==
    IF it < maxIterations
    THEN LET p == NextPos(d, myPartition[r], 1, 1)
             atEnd == p.pi > Len(myPartition[r])
         IN  [pc |-> IF atEnd THEN "flag" ELSE "relax",
              pi |-> IF atEnd THEN 1 ELSE p.pi,
              ei |-> IF atEnd THEN 1 ELSE p.ei,
              changed |-> FALSE,
              completed |-> iterationsCompleted[r] + 1,
              exit |-> "none"]
    ELSE [pc |-> "redEdges", pi |-> 1, ei |-> 1,
          changed |-> localChanged[r],
          completed |-> iterationsCompleted[r],
          exit |-> "limit"]

\* The top of the superstep loop for a process whose loop variable is it and
\* whose array is d: either a new superstep begins (localChanged = false,
\* iterationsCompleted++) and runs to its first edge, or to the distance
\* reduction when there is no edge to examine; or the loop condition fails.
LoopTop(r, it, d) ==
    IF it < maxIterations
    THEN LET p == NextPos(d, myPartition[r], 1, 1)
             atEnd == p.pi > Len(myPartition[r])
         IN  [pc |-> IF atEnd THEN "sync" ELSE "relax",
              pi |-> IF atEnd THEN 1 ELSE p.pi,
              ei |-> IF atEnd THEN 1 ELSE p.ei,
              changed |-> FALSE,
              completed |-> iterationsCompleted[r] + 1,
              exit |-> "none"]
    ELSE [pc |-> "redEdges", pi |-> 1, ei |-> 1,
          changed |-> localChanged[r],
          completed |-> iterationsCompleted[r],
          exit |-> "limit"]

\* One edge of the relax loop: count it, relax it when it improves, then
\* move to the next edge, or enter the distance reduction after the last.
RelaxEdge(r) ==
    /\ pc[r] = "relax"
    /\ LET u == myPartition[r][pi[r]]
           e == getAdjacencyList(graph, u)[ei[r]]
           v == e.destination
           newDist == NewDist(distances[r][u], e.weight)
           better == Improves(newDist, distances[r][v])
           d == IF better THEN [distances[r] EXCEPT ![v] = newDist]
                ELSE distances[r]
           p == NextPos(d, myPartition[r], pi[r], ei[r] + 1)
           atEnd == p.pi > Len(myPartition[r])
       IN  /\ edgesRelaxed' = [edgesRelaxed EXCEPT ![r] = @ + 1]
           /\ distances' = [distances EXCEPT ![r] = d]
           /\ localChanged' = [localChanged EXCEPT ![r] = @ \/ better]
           /\ localUpdates' = [localUpdates EXCEPT ![r] =
                                  IF better THEN @ + 1 ELSE @]
           /\ pc' = [pc EXCEPT ![r] = IF atEnd THEN "sync" ELSE "relax"]
           /\ pi' = [pi EXCEPT ![r] = IF atEnd THEN 1 ELSE p.pi]
           /\ ei' = [ei EXCEPT ![r] = IF atEnd THEN 1 ELSE p.ei]
    /\ UNCHANGED <<graphVars, output, statVars, released, globalDistances, iteration,
                   iterationsCompleted, localFlag, globalFlag, loopExit,
                   localBefore,
                   startDistances>>

RECURSIVE RelaxFrom(_, _)
\* The rest of the relax loop of process r from the loop state st (the
\* array d, the position pi/ei, and what the loop has counted so far), run
\* to its end without another process in between.
RelaxFrom(r, st) ==
    LET p == NextPos(st.d, myPartition[r], st.pi, st.ei)
    IN  IF p.pi > Len(myPartition[r]) THEN st
        ELSE LET u == myPartition[r][p.pi]
                 e == getAdjacencyList(graph, u)[p.ei]
                 v == e.destination
                 newDist == NewDist(st.d[u], e.weight)
                 better == Improves(newDist, st.d[v])
             IN  RelaxFrom(r, [d |-> IF better THEN [st.d EXCEPT ![v] = newDist]
                                     ELSE st.d,
                               pi |-> p.pi,
                               ei |-> p.ei + 1,
                               edges |-> st.edges + 1,
                               updates |-> IF better THEN st.updates + 1
                                           ELSE st.updates,
                               changed |-> st.changed \/ better])

\* One whole local-relax phase of process r on the array d: the array it
\* ends with, the edges it examined, its updates and its localChanged.
RelaxLoop(r, d) ==
    RelaxFrom(r, [d |-> d, pi |-> 1, ei |-> 1, edges |-> 0, updates |-> 0,
                  changed |-> FALSE])

\* ------------------------------------------------------------------------
\* MPI collectives.  A process that calls a collective is blocked in it
\* (pc names the call) until every process of the communicator has called
\* it; the collective then completes, filling the receive buffers, and each
\* process returns from it on its own.
\* ------------------------------------------------------------------------

\* mutant: the collective completes with the first process that calls it
AllArrivedAny(p) == released = {} /\ \E r \in Ranks : pc[r] = p

\* every process is blocked in the call named p, none still returning
AllArrived(p) == released = {} /\ \A r \in Ranks : pc[r] = p

RECURSIVE MinOver(_, _, _)
\* MPI_MIN over the ranks 0..r of element n of the send buffers
MinOver(bufs, n, r) ==
    IF r = 0 THEN bufs[0][n] ELSE DMin(MinOver(bufs, n, r - 1), bufs[r][n])

\* mutant: rank 0's array is broadcast
ReduceMinRankZero(bufs) == bufs[0]

\* mutant: the last rank's array is broadcast
ReduceMinLastRank(bufs) == bufs[size - 1]

\* MPI_Allreduce(..., MPI_DOUBLE, MPI_MIN): element-wise minimum
ReduceMin(bufs) == [n \in NodeIds |-> MinOver(bufs, n, size - 1)]

RECURSIVE SumOver(_, _)
\* MPI_SUM over the ranks 0..r of an int per rank
SumOver(buf, r) == IF r = 0 THEN buf[0] ELSE SumOver(buf, r - 1) + buf[r]

\* mutant: rank 0's own counter is the total
ReduceSumRankZero(buf) == buf[0]

\* MPI_SUM over all ranks of an int per rank
ReduceSum(buf) == SumOver(buf, size - 1)

RECURSIVE MaxOver(_, _)
\* MPI_MAX over the ranks 0..r of an int per rank
MaxOver(buf, r) ==
    IF r = 0 THEN buf[0]
    ELSE LET m == MaxOver(buf, r - 1) IN IF buf[r] > m THEN buf[r] ELSE m

\* mutant: rank 0's value is the result
ReduceMaxRankZero(buf) == buf[0]

\* mutant: MPI_SUM in the place of MPI_MAX
ReduceMaxAsSum(buf) == SumOver(buf, size - 1)

\* MPI_MAX over all ranks of an int per rank
ReduceMax(buf) == MaxOver(buf, size - 1)

\* MPI_Barrier completes
BarrierComplete ==
    /\ AllArrived("barrier")
    /\ released' = Ranks
    /\ UNCHANGED <<graphVars, output, statVars, pc, distances, globalDistances,
                   iteration, iterationsCompleted, edgesRelaxed, localUpdates,
                   localChanged, localFlag, globalFlag, pi, ei, loopExit,
                   localBefore,
                   startDistances>>

\* MPI_Allreduce(distances, globalDistances, nodeCount, MPI_DOUBLE, MPI_MIN)
\* completes: the initial synchronization or a superstep's
AllreduceMin ==
    /\ AllArrived("initSync") \/ AllArrived("sync")
    /\ globalDistances' = [r \in Ranks |-> ReduceMin(distances)]
    /\ localBefore' = distances
    /\ released' = Ranks
    /\ UNCHANGED <<graphVars, output, statVars, startDistances, pc, distances, iteration,
                   iterationsCompleted, edgesRelaxed, localUpdates,
                   localChanged, localFlag, globalFlag, pi, ei, loopExit>>

\* MPI_Allreduce(&localFlag, &globalFlag, 1, MPI_INT, MPI_MAX) completes
AllreduceMax ==
    /\ AllArrived("flag")
    /\ globalFlag' = [r \in Ranks |-> ReduceMax(localFlag)]
    /\ released' = Ranks
    /\ UNCHANGED <<graphVars, output, statVars, pc, distances, globalDistances,
                   iteration, iterationsCompleted, edgesRelaxed, localUpdates,
                   localChanged, localFlag, pi, ei, loopExit, localBefore,
                   startDistances>>

\* MPI_Reduce(&edgesRelaxed, &totalEdgesRelaxed, 1, MPI_INT, MPI_SUM, 0)
ReduceEdges ==
    /\ AllArrived("redEdges")
    /\ totalEdgesRelaxed' = ReduceSum(edgesRelaxed)
    /\ released' = Ranks
    /\ UNCHANGED <<graphVars, output, pc, distances, globalDistances, iteration,
                   iterationsCompleted, edgesRelaxed, localUpdates,
                   localChanged, localFlag, globalFlag, pi, ei, loopExit,
                   totalLocalUpdates, maxIterations_global, localBefore,
                   startDistances>>

\* MPI_Reduce(&localUpdates, &totalLocalUpdates, 1, MPI_INT, MPI_SUM, 0)
ReduceUpdates ==
    /\ AllArrived("redUpdates")
    /\ totalLocalUpdates' = ReduceSum(localUpdates)
    /\ released' = Ranks
    /\ UNCHANGED <<graphVars, output, pc, distances, globalDistances, iteration,
                   iterationsCompleted, edgesRelaxed, localUpdates,
                   localChanged, localFlag, globalFlag, pi, ei, loopExit,
                   totalEdgesRelaxed, maxIterations_global, localBefore,
                   startDistances>>

\* MPI_Reduce(&iterationsCompleted, &maxIterations_global, 1, MPI_INT,
\* MPI_MAX, 0)
ReduceIterations ==
    /\ AllArrived("redIters")
    /\ maxIterations_global' = ReduceMax(iterationsCompleted)
    /\ released' = Ranks
    /\ UNCHANGED <<graphVars, output, pc, distances, globalDistances, iteration,
                   iterationsCompleted, edgesRelaxed, localUpdates,
                   localChanged, localFlag, globalFlag, pi, ei, loopExit,
                   totalEdgesRelaxed, totalLocalUpdates, localBefore,
                   startDistances>>

\* ------------------------------------------------------------------------
\* The steps of one process between two collectives
\* ------------------------------------------------------------------------

\* Back from MPI_Barrier: create the arrays, set the source distance, call
\* the initial MPI_Allreduce.
InitDistances(r) ==
    /\ pc[r] = "barrier" /\ r \in released
    /\ released' = released \ {r}
    /\ distances' = [distances EXCEPT ![r] = SetSource(r, InfArray)]
    /\ globalDistances' = [globalDistances EXCEPT ![r] = InfArray]
    /\ pc' = [pc EXCEPT ![r] = "initSync"]
    /\ UNCHANGED <<graphVars, output, statVars, iteration, iterationsCompleted,
                   edgesRelaxed, localUpdates, localChanged, localFlag,
                   globalFlag, pi, ei, loopExit, localBefore,
                   startDistances>>

\* Back from the initial MPI_Allreduce: distances = globalDistances, the
\* counters start at 0 and the superstep loop is entered with iteration = 0.
StartLoop(r) ==
    /\ pc[r] = "initSync" /\ r \in released
    /\ released' = released \ {r}
    /\ LET d == globalDistances[r]
           t == LoopTop(r, 0, d)
       IN  /\ distances' = [distances EXCEPT ![r] = d]
           /\ iteration' = [iteration EXCEPT ![r] = 0]
           /\ iterationsCompleted' = [iterationsCompleted EXCEPT ![r] = t.completed]
           /\ localChanged' = [localChanged EXCEPT ![r] = t.changed]
           /\ pc' = [pc EXCEPT ![r] = t.pc]
           /\ pi' = [pi EXCEPT ![r] = t.pi]
           /\ ei' = [ei EXCEPT ![r] = t.ei]
           /\ loopExit' = [loopExit EXCEPT ![r] = t.exit]
           /\ startDistances' = [startDistances EXCEPT ![r] = d]
    /\ UNCHANGED <<graphVars, output, statVars, globalDistances, edgesRelaxed,
                   localUpdates, localFlag, globalFlag, localBefore>>

\* mutant: the flag is raised whatever localChanged
FlagOfOne(changed) == 1

\* mutant: the flag does not follow localChanged
FlagOfZero(changed) == 0

\* int localFlag = localChanged ? 1 : 0
FlagOf(changed) == IF changed THEN 1 ELSE 0

\* Back from a superstep's distance MPI_Allreduce: distances =
\* globalDistances, then the flag MPI_Allreduce is called with localFlag.
Synchronize(r) ==
    /\ pc[r] = "sync" /\ r \in released
    /\ released' = released \ {r}
    /\ distances' = [distances EXCEPT ![r] = globalDistances[r]]
    /\ localFlag' = [localFlag EXCEPT ![r] = FlagOf(localChanged[r])]
    /\ globalFlag' = [globalFlag EXCEPT ![r] = 0]
    /\ pc' = [pc EXCEPT ![r] = "flag"]
    /\ UNCHANGED <<graphVars, output, statVars, globalDistances, iteration,
                   iterationsCompleted, edgesRelaxed, localUpdates,
                   localChanged, pi, ei, loopExit, localBefore,
                   startDistances>>

\* mutant: the test of the break is inverted
ConvergedInverted(flag) == flag # 0

\* if (globalFlag == 0) break
Converged(flag) == flag = 0

\* Back from the flag MPI_Allreduce: break when the global flag is 0,
\* otherwise iteration++ and the top of the loop again.  Leaving the loop
\* leads to the first MPI_Reduce.
CheckConvergence(r) ==
    /\ pc[r] = "flag" /\ r \in released
    /\ released' = released \ {r}
    /\ IF Converged(globalFlag[r])
       THEN /\ pc' = [pc EXCEPT ![r] = "redEdges"]
            /\ loopExit' = [loopExit EXCEPT ![r] = "converged"]
            /\ UNCHANGED <<iteration, iterationsCompleted, localChanged,
                           pi, ei, startDistances>>
       ELSE LET t == LoopTop(r, iteration[r] + 1, distances[r])
            IN  /\ iteration' = [iteration EXCEPT ![r] = @ + 1]
                /\ iterationsCompleted' =
                       [iterationsCompleted EXCEPT ![r] = t.completed]
                /\ localChanged' = [localChanged EXCEPT ![r] = t.changed]
                /\ pc' = [pc EXCEPT ![r] = t.pc]
                /\ pi' = [pi EXCEPT ![r] = t.pi]
                /\ ei' = [ei EXCEPT ![r] = t.ei]
                /\ loopExit' = [loopExit EXCEPT ![r] = t.exit]
                /\ startDistances' =
                       IF t.exit = "none"
                       THEN [startDistances EXCEPT ![r] = distances[r]]
                       ELSE startDistances
    /\ UNCHANGED <<graphVars, output, statVars, distances, globalDistances,
                   edgesRelaxed, localUpdates, localFlag, globalFlag,
                   localBefore>>

\* argv[3]: any node id of the largest graph file, in range or not for the
\* graph loaded
Destinations == NodeIds \cup 0..(MaxNodes - 1)

\* double finalDist = distances[destination]: the element, or for a
\* destination that is no index of the array whatever the read yields
ReadDistance(d, destination) ==
    IF destination \in DOMAIN d THEN {d[destination]} ELSE {Infinity, Fin(0)}

\* cout << finalDist: the digits of a finite value, "inf" for +infinity
FormatDouble(d) ==
    IF IsInf(d) THEN [text |-> "inf", val |-> 0]
    ELSE [text |-> "number", val |-> d.val]

\* the report rank 0 writes to cout (the execution time left out)
Report(destination, finalDist) ==
    [stream |-> "cout", kind |-> "report",
     nodes |-> nodeCount,
     edges |-> getEdgeCount(graph),
     processes |-> size,
     nodesPerProcess |-> nodeCount \div size,
     source |-> source,
     destination |-> destination,
     distance |-> FormatDouble(finalDist),
     iterations |-> maxIterations_global,
     totalEdgesRelaxed |-> totalEdgesRelaxed,
     distanceUpdates |-> totalLocalUpdates]

\* Back from one of the three MPI_Reduce calls: the next one, or after the
\* last the end of main, before which rank 0 writes the report.
NextReduce(r) ==
    /\ pc[r] \in {"redEdges", "redUpdates", "redIters"} /\ r \in released
    /\ released' = released \ {r}
    /\ pc' = [pc EXCEPT ![r] =
                 CASE pc[r] = "redEdges" -> "redUpdates"
                   [] pc[r] = "redUpdates" -> "redIters"
                   [] OTHER -> "done"]
    /\ IF pc[r] = "redIters" /\ r = 0
       THEN \E destination \in Destinations :
                \E finalDist \in ReadDistance(distances[r], destination) :
                    output' = [output EXCEPT ![r] =
                                  Append(@, Report(destination, finalDist))]
       ELSE UNCHANGED output
    /\ UNCHANGED <<graphVars, statVars, distances, globalDistances, iteration,
                   iterationsCompleted, edgesRelaxed, localUpdates,
                   localChanged, localFlag, globalFlag, pi, ei, loopExit,
                   localBefore,
                   startDistances>>

\* ------------------------------------------------------------------------
\* Specifications of the engine
\* ------------------------------------------------------------------------

\* the edge lines "from to weight" of a graph file
EdgeLine(W) == [from : 0..(MaxNodes - 1), to : 0..(MaxNodes - 1), weight : W]

\* graph files with at most maxLines edge lines and weights in W
GraphFiles(W, maxLines) ==
    [numNodes : 0..MaxNodes,
     lines : UNION {[1..n -> EdgeLine(W)] : n \in 0..maxLines}]

\* those of them without an edge line from a node to itself
LoopFreeFiles(W, maxLines) ==
    {file \in GraphFiles(W, maxLines) :
        \A i \in DOMAIN file.lines : file.lines[i].from # file.lines[i].to}

\* an undirected connection: two edge lines
BothWays(a, b, w) ==
    <<[from |-> a, to |-> b, weight |-> w], [from |-> b, to |-> a, weight |-> w]>>

\* Scenario B: the components {0,1} and {2,3}
ScenarioB == [numNodes |-> 4, lines |-> BothWays(0, 1, 1) \o BothWays(2, 3, 1)]

\* Every process has loaded the same file (one of files), computed its
\* partition and called MPI_Barrier; argv[2] is one of sources.
EngineInit(files, sources) ==
    /\ \E file \in files : graph = loadFromFile(Graph(0), file)
    /\ source \in sources
    /\ size \in 1..MaxProcs
    /\ myPartition = [r \in Ranks |-> getRoundRobinPartition(graph, r, size)]
    /\ pc = [r \in Ranks |-> "barrier"]
    /\ released = {}
    /\ argc = 4
    /\ mailbox = [r \in Ranks |-> {}]
    /\ bcast = [r \in Ranks |-> "idle"]
    /\ checkResult = [r \in Ranks |-> "none"]
    /\ coordinates = Coordinates(getNodeCount(graph))
    /\ output = [r \in Ranks |-> <<>>]
    /\ distances = [r \in Ranks |-> InfArray]
    /\ globalDistances = [r \in Ranks |-> InfArray]
    /\ iteration = [r \in Ranks |-> 0]
    /\ iterationsCompleted = [r \in Ranks |-> 0]
    /\ edgesRelaxed = [r \in Ranks |-> 0]
    /\ localUpdates = [r \in Ranks |-> 0]
    /\ localChanged = [r \in Ranks |-> FALSE]
    /\ localFlag = [r \in Ranks |-> 0]
    /\ globalFlag = [r \in Ranks |-> 0]
    /\ pi = [r \in Ranks |-> 1]
    /\ ei = [r \in Ranks |-> 1]
    /\ loopExit = [r \in Ranks |-> "none"]
    /\ totalEdgesRelaxed = 0
    /\ totalLocalUpdates = 0
    /\ maxIterations_global = 0
    /\ localBefore = [r \in Ranks |-> InfArray]
    /\ startDistances = [r \in Ranks |-> InfArray]
    /\ call = NoCall

Init ==
    \/ EngineInit(LoopFreeFiles(0..MaxWeight, MaxEdges), 0..(MaxNodes - 1))
    \/ EngineInit({ScenarioB}, {0})

Next ==
    \/ BarrierComplete
    \/ AllreduceMin
    \/ AllreduceMax
    \/ ReduceEdges
    \/ ReduceUpdates
    \/ ReduceIterations
    \/ \E r \in Ranks :
           \/ InitDistances(r)
           \/ StartLoop(r)
           \/ RelaxEdge(r)
           \/ Synchronize(r)
           \/ CheckConvergence(r)
           \/ NextReduce(r)

Spec == Init /\ [][Next]_vars

\* the processes run and MPI makes progress: some enabled step is taken
SpecFair == Spec /\ WF_vars(Next)

\* the same engine on files that may hold negative weights
InitNeg ==
    EngineInit(GraphFiles((0 - NegWeight)..MaxWeight, MaxNegEdges),
               0..(MaxNodes - 1))

SpecNeg == InitNeg /\ [][Next]_vars

\* the same, with progress
SpecNegFair == SpecNeg /\ WF_vars(Next)

\* the file of the directed chain 0 -> 1 -> ... -> k-1 with unit weights in
\* a graph of n nodes
ChainFile(k, n) ==
    [numNodes |-> n,
     lines |-> [i \in 1..(k - 1) |-> [from |-> i - 1, to |-> i, weight |-> 1]]]

\* the chains of 1..MaxChain nodes in graphs of at most MaxChain nodes
ChainFiles == UNION {{ChainFile(k, n) : k \in 1..n} : n \in 1..MaxChain}

\* the engine started on a chain, with source 0
InitChain == EngineInit(ChainFiles, {0})

SpecChain == InitChain /\ [][Next]_vars

\* ------------------------------------------------------------------------
\* The start of main: the graph load, which may fail, and MPI_Abort
\* ------------------------------------------------------------------------

\* cout << "Usage: ..."
UsageLine == [stream |-> "cout", kind |-> "usage"]

\* mutant: the usage line is written whatever the rank
WritesUsageAll(r) == TRUE

\* if (rank == 0) around the usage line
WritesUsage(r) == r = 0

\* if (argc < 4): rank 0 writes the usage line; MPI_Finalize; return 1
Usage(r) ==
    /\ pc[r] = "load"
    /\ argc < 4
    /\ output' = [output EXCEPT ![r] =
                      IF WritesUsage(r) THEN Append(@, UsageLine) ELSE @]
    /\ pc' = [pc EXCEPT ![r] = "exit"]
    /\ UNCHANGED <<graphVars, statVars, released, distances, globalDistances,
                   iteration, iterationsCompleted, edgesRelaxed, localUpdates,
                   localChanged, localFlag, globalFlag, pi, ei, loopExit,
                   localBefore,
                   startDistances>>

\* cerr << "Process " << rank << ": Error loading graph\n"
LoadError(r) == [stream |-> "cerr", kind |-> "loadError", rank |-> r]

\* if (!graph.loadFromFile(graphFile)) { cerr ...; MPI_Abort }, else the
\* partitioning and the call of MPI_Barrier.  Whether the file can be opened is decided on each
\* process by its own file system; graph is what the load yields on a
\* process that can open it.
LoadGraph(r) ==
    /\ pc[r] = "load"
    /\ argc >= 4
    /\ \E opened \in BOOLEAN :
           IF opened
           THEN /\ myPartition' = [myPartition EXCEPT ![r] =
                                      getRoundRobinPartition(graph, r, size)]
                /\ pc' = [pc EXCEPT ![r] = "barrier"]
                /\ UNCHANGED output
           ELSE /\ pc' = [pc EXCEPT ![r] = "failed"]
                /\ output' = [output EXCEPT ![r] = Append(@, LoadError(r))]
                /\ UNCHANGED myPartition
    /\ UNCHANGED <<graph, call, coordinates, argc, source, size, msgVars, statVars, released, distances,
                   globalDistances, iteration, iterationsCompleted,
                   edgesRelaxed, localUpdates, localChanged, localFlag,
                   globalFlag, pi, ei, loopExit, localBefore,
                   startDistances>>

\* mutant: the failing process alone ends
AbortSelf(r) == [pc EXCEPT ![r] = "aborted"]

\* MPI_Abort(MPI_COMM_WORLD, 1): every process of the communicator is
\* terminated, wherever it is
AbortAll(r) == [s \in Ranks |-> "aborted"]

\* the MPI_Abort of a process whose load failed takes effect
Abort(r) ==
    /\ pc[r] = "failed"
    /\ pc' = AbortAll(r)
    /\ UNCHANGED <<graphVars, output, statVars, released, distances, globalDistances,
                   iteration, iterationsCompleted, edgesRelaxed, localUpdates,
                   localChanged, localFlag, globalFlag, pi, ei, loopExit,
                   localBefore,
                   startDistances>>

\* the processes are before the load of a chain file
InitLoad ==
    /\ \E file \in ChainFiles : graph = loadFromFile(Graph(0), file)
    /\ source = 0
    /\ size \in 1..MaxProcs
    /\ myPartition = [r \in Ranks |-> <<>>]
    /\ pc = [r \in Ranks |-> "load"]
    /\ released = {}
    /\ argc \in {3, 4}
    /\ mailbox = [r \in Ranks |-> {}]
    /\ bcast = [r \in Ranks |-> "idle"]
    /\ checkResult = [r \in Ranks |-> "none"]
    /\ coordinates = Coordinates(getNodeCount(graph))
    /\ output = [r \in Ranks |-> <<>>]
    /\ distances = [r \in Ranks |-> InfArray]
    /\ globalDistances = [r \in Ranks |-> InfArray]
    /\ iteration = [r \in Ranks |-> 0]
    /\ iterationsCompleted = [r \in Ranks |-> 0]
    /\ edgesRelaxed = [r \in Ranks |-> 0]
    /\ localUpdates = [r \in Ranks |-> 0]
    /\ localChanged = [r \in Ranks |-> FALSE]
    /\ localFlag = [r \in Ranks |-> 0]
    /\ globalFlag = [r \in Ranks |-> 0]
    /\ pi = [r \in Ranks |-> 1]
    /\ ei = [r \in Ranks |-> 1]
    /\ loopExit = [r \in Ranks |-> "none"]
    /\ totalEdgesRelaxed = 0
    /\ totalLocalUpdates = 0
    /\ maxIterations_global = 0
    /\ localBefore = [r \in Ranks |-> InfArray]
    /\ startDistances = [r \in Ranks |-> InfArray]
    /\ call = NoCall

NextLoad ==
    \/ Next
    \/ \E r \in Ranks : Usage(r)
    \/ \E r \in Ranks : LoadGraph(r)
    \/ \E r \in Ranks : Abort(r)

\* main from the load on; the processes run and MPI makes progress
SpecLoad == InitLoad /\ [][NextLoad]_vars /\ WF_vars(NextLoad)

\* ------------------------------------------------------------------------
\* The partitioning step of main, on its own
\* ------------------------------------------------------------------------

\* vector<int> myPartition = Partitioner::getRoundRobinPartition(graph,
\* rank, size)
Partition(r) ==
    /\ pc[r] = "start"
    /\ myPartition' = [myPartition EXCEPT ![r] =
                          getRoundRobinPartition(graph, r, size)]
    /\ pc' = [pc EXCEPT ![r] = "partitioned"]
    /\ UNCHANGED <<graph, call, coordinates, argc, output, source, size, msgVars, statVars, released, distances,
                   globalDistances, iteration, iterationsCompleted,
                   edgesRelaxed, localUpdates, localChanged, localFlag,
                   globalFlag, pi, ei, loopExit, localBefore,
                   startDistances>>

\* Every process holds a graph of nodeCount nodes and has not partitioned.
InitPartition ==
    /\ \E n \in 0..MaxPartNodes : graph = Graph(n)
    /\ source = 0
    /\ size \in 1..MaxPartProcs
    /\ myPartition = [r \in Ranks |-> <<>>]
    /\ pc = [r \in Ranks |-> "start"]
    /\ released = {}
    /\ argc = 4
    /\ mailbox = [r \in Ranks |-> {}]
    /\ bcast = [r \in Ranks |-> "idle"]
    /\ checkResult = [r \in Ranks |-> "none"]
    /\ coordinates = Coordinates(getNodeCount(graph))
    /\ output = [r \in Ranks |-> <<>>]
    /\ distances = [r \in Ranks |-> InfArray]
    /\ globalDistances = [r \in Ranks |-> InfArray]
    /\ iteration = [r \in Ranks |-> 0]
    /\ iterationsCompleted = [r \in Ranks |-> 0]
    /\ edgesRelaxed = [r \in Ranks |-> 0]
    /\ localUpdates = [r \in Ranks |-> 0]
    /\ localChanged = [r \in Ranks |-> FALSE]
    /\ localFlag = [r \in Ranks |-> 0]
    /\ globalFlag = [r \in Ranks |-> 0]
    /\ pi = [r \in Ranks |-> 1]
    /\ ei = [r \in Ranks |-> 1]
    /\ loopExit = [r \in Ranks |-> "none"]
    /\ totalEdgesRelaxed = 0
    /\ totalLocalUpdates = 0
    /\ maxIterations_global = 0
    /\ localBefore = [r \in Ranks |-> InfArray]
    /\ startDistances = [r \in Ranks |-> InfArray]
    /\ call = NoCall

NextPartition == \E r \in Ranks : Partition(r)

SpecPartition == InitPartition /\ [][NextPartition]_vars

\* ------------------------------------------------------------------------
\* A Graph object used directly: its constructor, addEdge, loadFromFile
\* ------------------------------------------------------------------------

Tokens == {Num(x) : x \in 0..MaxFileNodes} \cup {Word}

\* the files loadFromFile is called with: one that cannot be opened, and
\* every file of at most MaxTokens tokens
StreamFiles ==
    {[opened |-> FALSE, tokens |-> <<>>]} \cup
    [opened : {TRUE}, tokens : UNION {[1..n -> Tokens] : n \in 0..MaxTokens}]

\* graph.addEdge(from, to, weight)
AddEdgeCall ==
    /\ pc[0] = "graph"
    /\ getEdgeCount(graph) < MaxGraphEdges
    /\ \E from, to \in (0 - 1)..MaxGraphNodes, weight \in 0..MaxWeight :
           /\ graph' = addEdge(graph, from, to, weight)
           /\ call' = [NoCall EXCEPT !.op = "addEdge", !.from = from, !.to = to,
                                     !.weight = weight, !.before = graph]
    /\ UNCHANGED <<coordinates, argc, output, source, size, myPartition, msgVars, statVars, pc, released,
                   distances, globalDistances, iteration, iterationsCompleted,
                   edgesRelaxed, localUpdates, localChanged, localFlag,
                   globalFlag, pi, ei, loopExit, localBefore,
                   startDistances>>

\* graph.addBidirectionalEdge(from, to, weight)
AddBidirectionalEdgeCall ==
    /\ pc[0] = "graph"
    /\ getEdgeCount(graph) < MaxGraphEdges
    /\ \E from, to \in (0 - 1)..MaxGraphNodes, weight \in 0..MaxWeight :
           /\ graph' = addBidirectionalEdge(graph, from, to, weight)
           /\ call' = [NoCall EXCEPT !.op = "addBidirectionalEdge",
                                     !.from = from, !.to = to,
                                     !.weight = weight, !.before = graph]
    /\ UNCHANGED <<coordinates, argc, output, source, size, myPartition, msgVars, statVars, pc, released,
                   distances, globalDistances, iteration, iterationsCompleted,
                   edgesRelaxed, localUpdates, localChanged, localFlag,
                   globalFlag, pi, ei, loopExit, localBefore,
                   startDistances>>

\* graph.setNodeCount(n); the node count is call.to
SetNodeCountCall ==
    /\ pc[0] = "graph"
    /\ \E n \in 0..MaxGraphNodes :
           /\ graph' = setNodeCount(graph, n)
           /\ coordinates' = resizeCoordinates(coordinates, n)
           /\ call' = [NoCall EXCEPT !.op = "setNodeCount", !.to = n,
                                     !.before = graph]
    /\ UNCHANGED <<argc, output, source, size, myPartition, msgVars, statVars, pc, released,
                   distances, globalDistances, iteration, iterationsCompleted,
                   edgesRelaxed, localUpdates, localChanged, localFlag,
                   globalFlag, pi, ei, loopExit, localBefore,
                   startDistances>>

RECURSIVE EdgeLinesOf(_, _)
\* the tokens "i destination weight" of the edges in the adjacency list adj
\* of node i, in order
EdgeLinesOf(i, adj) ==
    IF adj = <<>> THEN <<>>
    ELSE <<Num(i), Num(Head(adj).destination), Num(Head(adj).weight)>> \o
         EdgeLinesOf(i, Tail(adj))

RECURSIVE WriteEdges(_, _)
\* the loop "for (int i = 0; i < nodeCount; i++)" of Graph::saveToFile from
\* node i on
WriteEdges(g, i) ==
    IF i >= g.nodeCount THEN <<>>
    ELSE EdgeLinesOf(i, g.nodes[i]) \o WriteEdges(g, i + 1)

\* Graph::saveToFile: false when the file cannot be created; otherwise the
\* header "nodeCount edgeCount", then one line per stored edge
saveToFile(g) ==
    {[ret |-> FALSE, file |-> [opened |-> FALSE, tokens |-> <<>>]],
     [ret |-> TRUE,
      file |-> [opened |-> TRUE,
                tokens |-> <<Num(g.nodeCount), Num(g.edgeCount)>> \o
                           WriteEdges(g, 0)]]}

\* graph.saveToFile(filename); the file written is call.file
SaveToFileCall ==
    /\ pc[0] = "graph"
    /\ call.op # "saveToFile"
    /\ \E out \in saveToFile(graph) :
           call' = [NoCall EXCEPT !.op = "saveToFile", !.file = out.file,
                                  !.before = graph, !.ret = out.ret]
    /\ UNCHANGED <<graph, coordinates, argc, output, source, size, myPartition, msgVars, statVars, pc,
                   released, distances, globalDistances, iteration,
                   iterationsCompleted, edgesRelaxed, localUpdates,
                   localChanged, localFlag, globalFlag, pi, ei, loopExit,
                   localBefore, startDistances>>

\* graph.loadFromFile(file)
LoadFromFileCall ==
    /\ pc[0] = "graph"
    /\ call.op # "loadFromFile"
    /\ getEdgeCount(graph) < MaxGraphEdges
    /\ \E file \in StreamFiles : \E out \in loadFromFileStream(graph, file) :
           /\ graph' = out.graph
           /\ coordinates' =
                  resizeCoordinates(coordinates, getNodeCount(out.graph))
           /\ call' = [NoCall EXCEPT !.op = "loadFromFile", !.file = file,
                                     !.before = graph, !.ret = out.ret]
    /\ UNCHANGED <<argc, output, source, size, myPartition, msgVars, statVars, pc, released,
                   distances, globalDistances, iteration, iterationsCompleted,
                   edgesRelaxed, localUpdates, localChanged, localFlag,
                   globalFlag, pi, ei, loopExit, localBefore,
                   startDistances>>

\* a Graph constructed with 0..MaxGraphNodes nodes, in one process
InitGraph ==
    /\ \E n \in 0..MaxGraphNodes : graph = Graph(n)
    /\ call = NoCall
    /\ source = 0
    /\ size = 1
    /\ myPartition = [r \in Ranks |-> <<>>]
    /\ pc = [r \in Ranks |-> "graph"]
    /\ released = {}
    /\ argc = 4
    /\ mailbox = [r \in Ranks |-> {}]
    /\ bcast = [r \in Ranks |-> "idle"]
    /\ checkResult = [r \in Ranks |-> "none"]
    /\ coordinates = Coordinates(getNodeCount(graph))
    /\ output = [r \in Ranks |-> <<>>]
    /\ distances = [r \in Ranks |-> <<>>]
    /\ globalDistances = [r \in Ranks |-> <<>>]
    /\ iteration = [r \in Ranks |-> 0]
    /\ iterationsCompleted = [r \in Ranks |-> 0]
    /\ edgesRelaxed = [r \in Ranks |-> 0]
    /\ localUpdates = [r \in Ranks |-> 0]
    /\ localChanged = [r \in Ranks |-> FALSE]
    /\ localFlag = [r \in Ranks |-> 0]
    /\ globalFlag = [r \in Ranks |-> 0]
    /\ pi = [r \in Ranks |-> 1]
    /\ ei = [r \in Ranks |-> 1]
    /\ loopExit = [r \in Ranks |-> "none"]
    /\ totalEdgesRelaxed = 0
    /\ totalLocalUpdates = 0
    /\ maxIterations_global = 0
    /\ localBefore = [r \in Ranks |-> <<>>]
    /\ startDistances = [r \in Ranks |-> <<>>]

NextGraph ==
    \/ AddEdgeCall
    \/ AddBidirectionalEdgeCall
    \/ SetNodeCountCall
    \/ LoadFromFileCall
    \/ SaveToFileCall

SpecGraph == InitGraph /\ [][NextGraph]_vars


\* ------------------------------------------------------------------------

PQElement(id, dist, f) == [nodeId |-> id, distance |-> dist, fScore |-> f]

\* The elements pq.top() may return: those no other element is below by
\* operator> on fScore.  std::priority_queue leaves the order of equal
\* keys to the heap, so every least element is a possible top.
Tops(pq) == {x \in pq : \A y \in pq : ~DLess(y.fScore, x.fScore)}

RECURSIVE ExploreNeighbors(_, _, _, _)
\* the loop "for (const Edge& edge : edges)" of sequentialDijkstra from
\* entry i of currentNode's adjacency list
ExploreNeighbors(st, edges, currentNode, i) ==
    IF i > Len(edges) THEN st
    ELSE LET neighbor == edges[i].destination
             newDistance == DPlus(st.distances[currentNode], edges[i].weight)
         IN  IF DLess(newDistance, st.distances[neighbor])
             THEN ExploreNeighbors(
                      [st EXCEPT !.distances[neighbor] = newDistance,
                                 !.predecessors[neighbor] = currentNode,
                                 !.pq = @ \cup {PQElement(neighbor, newDistance,
                                                          newDistance)}],
                      edges, currentNode, i + 1)
             ELSE ExploreNeighbors(st, edges, currentNode, i + 1)

RECURSIVE DijkstraLoop(_, _, _)
\* the loop "while (!pq.empty())": the set of states it can end in, one
\* per way of choosing among equal tops
DijkstraLoop(g, destination, st) ==
    IF st.pq = {} THEN {st}
    ELSE UNION {
           LET currentNode == current.nodeId
               popped == [st EXCEPT !.pq = @ \ {current}]
           IN  IF popped.visited[currentNode]
               THEN DijkstraLoop(g, destination, popped)
               ELSE LET seen == [popped EXCEPT !.visited[currentNode] = TRUE]
                    IN  IF currentNode = destination THEN {seen}
                        ELSE DijkstraLoop(g, destination,
                                 ExploreNeighbors(seen,
                                     getAdjacencyList(g, currentNode),
                                     currentNode, 1))
           : current \in Tops(st.pq)}

RECURSIVE ReversePath(_, _)
\* while (current != -1) { reversePath.push_back(current); current =
\* predecessors[current]; }
ReversePath(predecessors, current) ==
    IF current = -1 THEN <<>>
    ELSE <<current>> \o ReversePath(predecessors, predecessors[current])

\* mutant: the path is left in the order it was collected in
ReverseNot(s) == s

\* path.assign(reversePath.rbegin(), reversePath.rend())
Reverse(s) == [i \in 1..Len(s) |-> s[Len(s) + 1 - i]]

\* the PathResult built from a final state of the loop
PathResultOf(st, destination) ==
    IF ~IsInf(st.distances[destination])
    THEN [found |-> TRUE,
          totalDistance |-> st.distances[destination],
          path |-> Reverse(ReversePath(st.predecessors, destination))]
    ELSE PathResult

\* sequentialDijkstra(graph, source, destination): the PathResults it can
\* return.  Its pq holds no two equal elements, since a node is pushed only
\* with a distance below the one it was pushed with before.
sequentialDijkstra(g, src, destination) ==
    LET ids == 0..(getNodeCount(g) - 1)
        st0 == [distances |-> [[n \in ids |-> Infinity] EXCEPT ![src] = Fin(0)],
                predecessors |-> [n \in ids |-> -1],
                visited |-> [n \in ids |-> FALSE],
                pq |-> {PQElement(src, Fin(0), Fin(0))}]
    IN  {PathResultOf(st, destination) : st \in DijkstraLoop(g, destination, st0)}

RECURSIVE AStarExploreNeighbors(_, _, _, _, _, _, _)
\* the loop "for (const Edge& edge : edges)" of sequentialAStarDijkstra from
\* entry i of currentNode's adjacency list; c holds the node coordinates
AStarExploreNeighbors(st, g, c, edges, currentNode, destination, i) ==
    IF i > Len(edges) THEN st
    ELSE LET neighbor == edges[i].destination
             newDistance == DPlus(st.distances[currentNode], edges[i].weight)
             heuristic == getHeuristic(g, c, neighbor, destination)
             fScore == DPlus(newDistance, heuristic)
         IN  IF DLess(newDistance, st.distances[neighbor])
             THEN AStarExploreNeighbors(
                      [st EXCEPT !.distances[neighbor] = newDistance,
                                 !.predecessors[neighbor] = currentNode,
                                 !.pq = @ \cup {PQElement(neighbor, newDistance,
                                                          fScore)}],
                      g, c, edges, currentNode, destination, i + 1)
             ELSE AStarExploreNeighbors(st, g, c, edges, currentNode,
                                        destination, i + 1)

RECURSIVE AStarLoop(_, _, _, _)
\* the loop "while (!pq.empty())" of sequentialAStarDijkstra: the set of
\* states it can end in, one per way of choosing among equal tops
AStarLoop(g, c, destination, st) ==
    IF st.pq = {} THEN {st}
    ELSE UNION {
           LET currentNode == current.nodeId
               popped == [st EXCEPT !.pq = @ \ {current}]
           IN  IF popped.visited[currentNode]
               THEN AStarLoop(g, c, destination, popped)
               ELSE LET seen == [popped EXCEPT !.visited[currentNode] = TRUE]
                    IN  IF currentNode = destination THEN {seen}
                        ELSE AStarLoop(g, c, destination,
                                 AStarExploreNeighbors(seen, g, c,
                                     getAdjacencyList(g, currentNode),
                                     currentNode, destination, 1))
           : current \in Tops(st.pq)}

\* sequentialAStarDijkstra(graph, source, destination) on a Graph g whose
\* nodes have the coordinates c: the PathResults it can return
sequentialAStarDijkstra(g, c, src, destination) ==
    LET ids == 0..(getNodeCount(g) - 1)
        heuristic == getHeuristic(g, c, src, destination)
        st0 == [distances |-> [[n \in ids |-> Infinity] EXCEPT ![src] = Fin(0)],
                predecessors |-> [n \in ids |-> -1],
                visited |-> [n \in ids |-> FALSE],
                pq |-> {PQElement(src, Fin(0), Fin(heuristic))}]
    IN  {PathResultOf(st, destination) : st \in AStarLoop(g, c, destination, st0)}

\* ------------------------------------------------------------------------
\* The reference algorithms called on a Graph with node coordinates
\* ------------------------------------------------------------------------

\* the points a node is placed at
Points == {Origin, [x |-> MaxCoord, y |-> 0]}

\* graph.setNodeCoordinates(nodeId, x, y); the node is call.to
SetNodeCoordinatesCall ==
    /\ pc[0] = "oracle"
    /\ \E nodeId \in 0..nodeCount, p \in Points :
           /\ coordinates' = setNodeCoordinates(graph, coordinates, nodeId, p.x, p.y)
           /\ call' = [NoCall EXCEPT !.op = "setNodeCoordinates", !.to = nodeId]
    /\ UNCHANGED <<graph, argc, output, source, size, myPartition, msgVars, statVars, pc,
                   released, distances, globalDistances, iteration,
                   iterationsCompleted, edgesRelaxed, localUpdates,
                   localChanged, localFlag, globalFlag, pi, ei, loopExit,
                   localBefore, startDistances>>

\* sequentialDijkstra(graph, src, destination) with both nodes in range;
\* they are call.from and call.to, the PathResult returned is call.result
SequentialDijkstraCall ==
    /\ pc[0] = "oracle"
    /\ \E src, destination \in NodeIds :
           \E result \in sequentialDijkstra(graph, src, destination) :
               call' = [NoCall EXCEPT !.op = "sequentialDijkstra",
                                      !.from = src, !.to = destination,
                                      !.result = result]
    /\ UNCHANGED <<graph, coordinates, argc, output, source, size, myPartition,
                   msgVars, statVars, pc, released, distances, globalDistances,
                   iteration, iterationsCompleted, edgesRelaxed, localUpdates,
                   localChanged, localFlag, globalFlag, pi, ei, loopExit,
                   localBefore, startDistances>>

\* sequentialAStarDijkstra(graph, src, destination) with both nodes in range
SequentialAStarDijkstraCall ==
    /\ pc[0] = "oracle"
    /\ \E src, destination \in NodeIds :
           \E result \in sequentialAStarDijkstra(graph, coordinates, src,
                                                 destination) :
               call' = [NoCall EXCEPT !.op = "sequentialAStarDijkstra",
                                      !.from = src, !.to = destination,
                                      !.result = result]
    /\ UNCHANGED <<graph, coordinates, argc, output, source, size, myPartition,
                   msgVars, statVars, pc, released, distances, globalDistances,
                   iteration, iterationsCompleted, edgesRelaxed, localUpdates,
                   localChanged, localFlag, globalFlag, pi, ei, loopExit,
                   localBefore, startDistances>>

\* a Graph loaded from a file of non-negative weights, its nodes at the
\* origin, in one process
InitOracle ==
    /\ \E file \in LoopFreeFiles(0..MaxWeight, MaxEdges) :
           graph = loadFromFile(Graph(0), file)
    /\ call = NoCall
    /\ coordinates = Coordinates(getNodeCount(graph))
    /\ source = 0
    /\ size = 1
    /\ myPartition = [r \in Ranks |-> <<>>]
    /\ pc = [r \in Ranks |-> "oracle"]
    /\ released = {}
    /\ argc = 4
    /\ mailbox = [r \in Ranks |-> {}]
    /\ bcast = [r \in Ranks |-> "idle"]
    /\ checkResult = [r \in Ranks |-> "none"]
    /\ output = [r \in Ranks |-> <<>>]
    /\ distances = [r \in Ranks |-> <<>>]
    /\ globalDistances = [r \in Ranks |-> <<>>]
    /\ iteration = [r \in Ranks |-> 0]
    /\ iterationsCompleted = [r \in Ranks |-> 0]
    /\ edgesRelaxed = [r \in Ranks |-> 0]
    /\ localUpdates = [r \in Ranks |-> 0]
    /\ localChanged = [r \in Ranks |-> FALSE]
    /\ localFlag = [r \in Ranks |-> 0]
    /\ globalFlag = [r \in Ranks |-> 0]
    /\ pi = [r \in Ranks |-> 1]
    /\ ei = [r \in Ranks |-> 1]
    /\ loopExit = [r \in Ranks |-> "none"]
    /\ totalEdgesRelaxed = 0
    /\ totalLocalUpdates = 0
    /\ maxIterations_global = 0
    /\ localBefore = [r \in Ranks |-> <<>>]
    /\ startDistances = [r \in Ranks |-> <<>>]

NextOracle ==
    \/ SetNodeCoordinatesCall
    \/ SequentialDijkstraCall
    \/ SequentialAStarDijkstraCall

SpecOracle == InitOracle /\ [][NextOracle]_vars

\* ------------------------------------------------------------------------
\* The messaging layer (MPIWrapper.h): distance updates and the terminate
\* signal
\* ------------------------------------------------------------------------

\* MPITags::DISTANCE_UPDATE
DISTANCE_UPDATE == 4

\* MPITags::TERMINATE
TERMINATE == 9

\* every variable that is no state of the messaging layer
engineVars ==
    <<graph, call, coordinates, argc, output, source, size, myPartition,
      statVars, pc, released, distances, globalDistances, iteration,
      iterationsCompleted, edgesRelaxed, localUpdates, localChanged,
      localFlag, globalFlag, pi, ei, loopExit, localBefore, startDistances>>

\* the process is not blocked in MPI_Bcast
Running(r) == pc[r] = "messaging" /\ bcast[r] # "inBcast"

\* MPI_Iprobe(MPI_ANY_SOURCE, tag, MPI_COMM_WORLD, &flag, &status) on the
\* pending point-to-point messages box: flag is set when one of them has
\* the tag.  The traffic of collectives such as MPI_Bcast is no
\* point-to-point message and is never probed.
Iprobe(box, tag) == \E msg \in box : msg.tag = tag

\* MPIWrapper::sendDistanceUpdate(nodeId, distance, destinationRank,
\* myRank): MPI_Send with the tag DISTANCE_UPDATE.  At most one update per
\* sender is pending at a destination.
SendDistanceUpdate(r) ==
    /\ Running(r)
    /\ \E destinationRank \in Ranks \ {r} :
           LET update == [tag |-> DISTANCE_UPDATE, fromProcess |-> r]
           IN  /\ update \notin mailbox[destinationRank]
               /\ mailbox' = [mailbox EXCEPT ![destinationRank] = @ \cup {update}]
    /\ UNCHANGED <<engineVars, bcast, checkResult>>

\* MPIWrapper::receiveDistanceUpdate finding a message: MPI_Iprobe for the
\* tag DISTANCE_UPDATE, then MPI_Recv of a message with that tag.  Without a
\* pending update it returns false and changes nothing.
ReceiveDistanceUpdate(r) ==
    /\ Running(r)
    /\ Iprobe(mailbox[r], DISTANCE_UPDATE)
    /\ \E update \in {msg \in mailbox[r] : msg.tag = DISTANCE_UPDATE} :
           mailbox' = [mailbox EXCEPT ![r] = @ \ {update}]
    /\ UNCHANGED <<engineVars, bcast, checkResult>>

\* MPIWrapper::broadcastTerminate(0): the process calls MPI_Bcast of
\* terminateSignal with root 0
BroadcastTerminate(r) ==
    /\ pc[r] = "messaging"
    /\ bcast[r] = "idle"
    /\ bcast' = [bcast EXCEPT ![r] = "inBcast"]
    /\ UNCHANGED <<engineVars, mailbox, checkResult>>

\* MPI_Bcast returns: at the root once the signal is handed over, which need
\* not wait for any other process; at another process once the root has
\* called it
BcastReturn(r) ==
    /\ pc[r] = "messaging"
    /\ bcast[r] = "inBcast"
    /\ r = 0 \/ bcast[0] # "idle"
    /\ bcast' = [bcast EXCEPT ![r] = "done"]
    /\ UNCHANGED <<engineVars, mailbox, checkResult>>

\* MPIWrapper::checkTerminate(): MPI_Iprobe for the tag TERMINATE; returns
\* the flag
checkTerminate(box) == Iprobe(box, TERMINATE)

\* the process calls checkTerminate()
CheckTerminate(r) ==
    /\ Running(r)
    /\ checkResult' = [checkResult EXCEPT ![r] =
                          IF checkTerminate(mailbox[r]) THEN "true" ELSE "false"]
    /\ UNCHANGED <<engineVars, mailbox, bcast>>

\* 2..MaxProcs processes that use the messaging layer, nothing sent yet
InitMessaging ==
    /\ graph = Graph(0)
    /\ call = NoCall
    /\ coordinates = Coordinates(getNodeCount(graph))
    /\ source = 0
    /\ size \in 2..MaxProcs
    /\ myPartition = [r \in Ranks |-> <<>>]
    /\ pc = [r \in Ranks |-> "messaging"]
    /\ mailbox = [r \in Ranks |-> {}]
    /\ bcast = [r \in Ranks |-> "idle"]
    /\ checkResult = [r \in Ranks |-> "none"]
    /\ released = {}
    /\ argc = 4
    /\ output = [r \in Ranks |-> <<>>]
    /\ distances = [r \in Ranks |-> <<>>]
    /\ globalDistances = [r \in Ranks |-> <<>>]
    /\ iteration = [r \in Ranks |-> 0]
    /\ iterationsCompleted = [r \in Ranks |-> 0]
    /\ edgesRelaxed = [r \in Ranks |-> 0]
    /\ localUpdates = [r \in Ranks |-> 0]
    /\ localChanged = [r \in Ranks |-> FALSE]
    /\ localFlag = [r \in Ranks |-> 0]
    /\ globalFlag = [r \in Ranks |-> 0]
    /\ pi = [r \in Ranks |-> 1]
    /\ ei = [r \in Ranks |-> 1]
    /\ loopExit = [r \in Ranks |-> "none"]
    /\ totalEdgesRelaxed = 0
    /\ totalLocalUpdates = 0
    /\ maxIterations_global = 0
    /\ localBefore = [r \in Ranks |-> <<>>]
    /\ startDistances = [r \in Ranks |-> <<>>]

NextMessaging ==
    \E r \in Ranks :
        \/ SendDistanceUpdate(r)
        \/ ReceiveDistanceUpdate(r)
        \/ BroadcastTerminate(r)
        \/ BcastReturn(r)
        \/ CheckTerminate(r)

\* every process keeps calling checkTerminate, and MPI completes a
\* broadcast that can complete
SpecMessaging ==
    /\ InitMessaging
    /\ [][NextMessaging]_vars
    /\ \A r \in 0..(MaxProcs - 1) :
           /\ WF_vars(r \in Ranks /\ CheckTerminate(r))
           /\ WF_vars(r \in Ranks /\ BcastReturn(r))

\* ------------------------------------------------------------------------
\* Definitions the properties are stated with
\* ------------------------------------------------------------------------

\* the process has left the superstep loop
LoopEnded(r) == loopExit[r] # "none"

AllDone == \A r \in Ranks : pc[r] = "done"

\* every stored edge weight is >= 0
NonNegative(g) ==
    \A u \in DOMAIN g.nodes : \A i \in DOMAIN g.nodes[u] : g.nodes[u][i].weight >= 0

RECURSIVE ReachFrom(_, _)
\* the nodes reachable from the set S by directed edges
ReachFrom(g, S) ==
    LET T == S \cup UNION {{g.nodes[u][i].destination : i \in DOMAIN g.nodes[u]} :
                           u \in S}
    IN  IF T = S THEN S ELSE ReachFrom(g, T)

\* the nodes reachable from src (none when src is no node)
Reachable(g, src) == IF InRange(g, src) THEN ReachFrom(g, {src}) ELSE {}

\* the least double of a non-empty set
LeastOf(S) == CHOOSE x \in S : \A y \in S : DLeq(x, y)

\* the edges into v, each as <<u, index in u's adjacency list>>
EdgesInto(g, v) ==
    UNION {{<<u, i>> : i \in {j \in DOMAIN g.nodes[u] :
                                 g.nodes[u][j].destination = v}} :
           u \in DOMAIN g.nodes}

\* one round of the shortest-path recurrence: the best of D[v] and of
\* D[u] + w over the edges (u, v, w)
PathRound(g, D) ==
    [v \in DOMAIN g.nodes |->
        LeastOf({D[v]} \cup
                {DPlus(D[x[1]], g.nodes[x[1]][x[2]].weight) : x \in EdgesInto(g, v)})]

RECURSIVE PathRounds(_, _, _)
PathRounds(g, D, k) == IF k = 0 THEN D ELSE PathRounds(g, PathRound(g, D), k - 1)

\* the shortest-path distances from src, defined by path length: the least
\* weight of a path of at most nodeCount - 1 edges (all +infinity when src
\* is no node)
ShortestDistances(g, src) ==
    LET D0 == [v \in DOMAIN g.nodes |-> IF v = src THEN Fin(0) ELSE Infinity]
    IN  PathRounds(g, D0, g.nodeCount)

\* ------------------------------------------------------------------------
\* C1
\* ------------------------------------------------------------------------

\* C1: with non-negative weights and an in-range source, the distance a
\* process holds for any in-range destination once it has left the
\* superstep loop is the totalDistance sequentialDijkstra returns for that
\* graph, source and destination (+infinity on both sides when the
\* destination is unreachable).
C1_EngineMatchesOracle ==
    (NonNegative(graph) /\ InRange(graph, source)) =>
        \A destination \in NodeIds :
            LET results == sequentialDijkstra(graph, source, destination)
            IN  \A r \in Ranks :
                    LoopEnded(r) =>
                        \A res \in results :
                            /\ res.totalDistance = distances[r][destination]
                            /\ res.found = ~IsInf(distances[r][destination])

\* three processes have finished on the triangle 0->2 (1), 0->1 (0),
\* 1->2 (0): node 2 is reached in two hops at 0, below the direct edge
C1_Witness ==
    /\ AllDone /\ size = 3 /\ source = 0 /\ nodeCount = 3
    /\ graph.nodes[0] = <<Edge(2, 1), Edge(1, 0)>>
    /\ graph.nodes[1] = <<Edge(2, 0)>>
    /\ distances[0][2] = Fin(0)
    /\ sequentialDijkstra(graph, 0, 2) =
           {[found |-> TRUE, totalDistance |-> Fin(0), path |-> <<0, 1, 2>>]}

\* ------------------------------------------------------------------------
\* C2
\* ------------------------------------------------------------------------

\* C2: with non-negative weights, the distance vector a process holds once
\* it has left the superstep loop is the vector of shortest-path distances
\* of the graph from the source, a value that does not depend on the number
\* of processes: runs of 1, 2, ... MaxProcs processes on the same graph and
\* source end with the same vector.
C2_SameVectorForEveryP ==
    NonNegative(graph) =>
        \A r \in Ranks :
            LoopEnded(r) => distances[r] = ShortestDistances(graph, source)

\* two processes have finished on the chain 1 -> 2 -> 0 from source 1: the
\* edge into node 0 is relaxed by rank 0, the edge into node 2 by rank 1
C2_Witness ==
    /\ AllDone /\ size = 2 /\ source = 1 /\ nodeCount = 3
    /\ graph.nodes[1] = <<Edge(2, 1)>>
    /\ graph.nodes[2] = <<Edge(0, 1)>>
    /\ distances[1] = (0 :> Fin(2)) @@ (1 :> Fin(0)) @@ (2 :> Fin(1))

\* ------------------------------------------------------------------------
\* C3
\* ------------------------------------------------------------------------

Partitioned(r) == pc[r] = "partitioned"

\* C3: the round-robin partitions of the ranks 0..P-1 are pairwise
\* disjoint, none lists a node twice, and together they are exactly the
\* nodes 0..nodeCount-1.
C3_PartitionExact ==
    /\ \A r \in Ranks :
           Partitioned(r) =>
               Cardinality(Range(myPartition[r])) = Len(myPartition[r])
    /\ \A r, s \in Ranks :
           (Partitioned(r) /\ Partitioned(s) /\ r # s) =>
               Range(myPartition[r]) \cap Range(myPartition[s]) = {}
    /\ (\A r \in Ranks : Partitioned(r)) =>
           UNION {Range(myPartition[r]) : r \in Ranks} = NodeIds

\* all of 3 processes have partitioned 7 nodes
C3_Witness ==
    /\ size = 3 /\ nodeCount = 7
    /\ \A r \in Ranks : Partitioned(r)
    /\ myPartition[1] = <<1, 4>>

\* ------------------------------------------------------------------------
\* C4
\* ------------------------------------------------------------------------

\* x is the minimum of element n of the arrays bufs: one of them holds it
\* and none holds less
IsMinimumOf(x, bufs, n) ==
    /\ \E s \in Ranks : bufs[s][n] = x
    /\ \A s \in Ranks : DLeq(x, bufs[s][n])

\* The process holds the result of the last completed distance reduction
\* untouched: it is back from a superstep's reduction and in the flag
\* reduction, or it is back from the initial reduction and has updated no
\* distance since.
HoldsReduced(r) ==
    \/ pc[r] = "flag"
    \/ /\ iterationsCompleted[r] = 1 /\ localUpdates[r] = 0
       /\ pc[r] = "relax" \/ (pc[r] = "sync" /\ r \notin released)

\* C4: a process back from the initial reduction or from a superstep's
\* distance reduction holds, at every node, the minimum of the values the
\* processes held at that node when they entered the reduction, and so all
\* processes back from the same reduction hold the same array.
C4_ReducedIsMinimum ==
    /\ \A r \in Ranks :
           HoldsReduced(r) =>
               \A n \in NodeIds : IsMinimumOf(distances[r][n], localBefore, n)
    /\ \A r, s \in Ranks :
           (HoldsReduced(r) /\ HoldsReduced(s)) => distances[r] = distances[s]

\* three processes are back from a superstep's reduction to which rank 0
\* brought +infinity and rank 1 a finite value for node 2
C4_Witness ==
    /\ size = 3 /\ nodeCount = 3
    /\ \A r \in Ranks : pc[r] = "flag"
    /\ IsInf(localBefore[0][2]) /\ localBefore[1][2] = Fin(1)
    /\ distances[0][2] = Fin(1)

\* ------------------------------------------------------------------------
\* C5
\* ------------------------------------------------------------------------

\* the superstep a process is in or was last in, counted from 1
Superstep(r) == iterationsCompleted[r]

\* the process is in the local-relax (compute) phase of its superstep
Computing(r) == pc[r] = "relax"

\* the process is in the communicate phase of its superstep: in the
\* distance reduction or in the flag reduction
Communicating(r) == pc[r] \in {"sync", "flag"}

\* the process has returned from the flag reduction of superstep k
FinishedCommunicate(s, k) == Superstep(s) > k \/ (Superstep(s) = k /\ LoopEnded(s))

\* C5 as claimed: while a process computes in superstep k+1, every process
\* has finished (returned from) the communicate phase of superstep k, and
\* no process is in the communicate phase of the superstep another process
\* computes in.
C5_AsClaimed ==
    \A r, s \in Ranks :
        Computing(r) =>
            /\ Superstep(r) >= 2 => FinishedCommunicate(s, Superstep(r) - 1)
            /\ ~(Communicating(s) /\ Superstep(s) = Superstep(r))

\* the flag reduction of superstep k, which the process is in, has
\* completed; the process has not returned from it yet
FlagReductionComplete(s, k) == Superstep(s) = k /\ pc[s] = "flag" /\ s \in released

\* the distance reduction of the process's superstep has completed for it:
\* it is released from it, or already in the flag reduction
SyncComplete(s) == pc[s] = "flag" \/ (pc[s] = "sync" /\ s \in released)

\* C5, amended: while a process computes in superstep k+1, every process
\* has finished its local relax and its distance reduction of superstep k
\* and the flag reduction of superstep k has completed, although a process
\* may not have returned from it yet; and while a process computes in a
\* superstep, the distance reduction of that superstep has completed for
\* no process (others may be blocked in it).
C5_BspDiscipline ==
    \A r, s \in Ranks :
        Computing(r) =>
            /\ Superstep(r) >= 2 =>
                   \/ FinishedCommunicate(s, Superstep(r) - 1)
                   \/ FlagReductionComplete(s, Superstep(r) - 1)
            /\ ~(SyncComplete(s) /\ Superstep(s) = Superstep(r))
            /\ Superstep(s) <= Superstep(r)

\* rank 0 computes in superstep 2 while rank 1 has not returned from the
\* flag reduction of superstep 1 and rank 2 is blocked in the distance
\* reduction of superstep 2
C5_Witness ==
    /\ size = 3
    /\ Computing(0) /\ Superstep(0) = 2
    /\ FlagReductionComplete(1, 1)
    /\ pc[2] = "sync" /\ Superstep(2) = 2 /\ 2 \notin released

\* ------------------------------------------------------------------------
\* C6
\* ------------------------------------------------------------------------

\* the flag reduction has just completed: every process is released from it
FlagJustReduced == released = Ranks /\ \A r \in Ranks : pc[r] = "flag"

\* the global flag every process received is 1 exactly when some process's
\* localChanged is true, and 0 otherwise
C6_FlagIsOr ==
    FlagJustReduced =>
        \A r \in Ranks :
            globalFlag[r] = (IF \E s \in Ranks : localChanged[s] THEN 1 ELSE 0)

\* a process returning from the flag reduction leaves the loop as converged
\* exactly when its global flag is 0, and otherwise goes on to the next
\* iteration
C6_Decision ==
    \A r \in Ranks :
        (pc[r] = "flag" /\ pc'[r] # "flag") =>
            /\ (globalFlag[r] = 0) <=> (loopExit'[r] = "converged")
            /\ globalFlag[r] = 0 =>
                   (pc'[r] = "redEdges" /\ iteration'[r] = iteration[r])
            /\ globalFlag[r] # 0 =>
                   /\ iteration'[r] = iteration[r] + 1
                   /\ \/ /\ pc'[r] \in {"relax", "sync"}
                         /\ Superstep(r)' = Superstep(r) + 1
                      \/ /\ loopExit'[r] = "limit"
                         /\ iteration'[r] = maxIterations

\* two processes that are in the same superstep, the first back from its
\* flag reduction, the second in it, hold the same global flag once the
\* reduction has completed; processes that left the loop left it the same
\* way after the same number of supersteps, and a process still in the loop
\* is in that superstep's flag reduction
C6_SameDecision ==
    \A r, s \in Ranks :
        LoopEnded(r) =>
            /\ Superstep(s) = Superstep(r) \/ ~LoopEnded(s)
            /\ LoopEnded(s) => loopExit[s] = loopExit[r]
            /\ ~LoopEnded(s) =>
                   \/ FlagReductionComplete(s, Superstep(r)) /\ globalFlag[s] = globalFlag[r]
                   \/ pc[s] = "initSync" /\ s \in released /\ Superstep(r) = 0

\* C6: in every superstep the global flag is the OR of the processes' local
\* changed flags; a process leaves the loop as converged exactly when the
\* global flag is false and goes on otherwise; all processes decide alike
\* in the same superstep.
C6_ConvergenceCheck ==
    /\ [](C6_FlagIsOr /\ C6_SameDecision)
    /\ [][C6_Decision]_vars

\* in superstep 2 of three processes only rank 1 changed a distance; the
\* reduction gave 1 to all, rank 0 has gone on to superstep 3, and rank 2
\* has not returned yet
C6_Witness ==
    /\ size = 3
    /\ Superstep(0) = 3 /\ Superstep(2) = 2 /\ FlagReductionComplete(2, 2)
    /\ localFlag = (0 :> 0) @@ (1 :> 1) @@ (2 :> 0)
    /\ globalFlag[2] = 1

\* ------------------------------------------------------------------------
\* C7
\* ------------------------------------------------------------------------

\* No process executes more than nodeCount supersteps.  A process that left
\* the loop by the break did so in a superstep whose global flag was 0; one
\* that left it by the loop condition executed exactly nodeCount supersteps
\* and the last global flag it received was not 0.
C7_Bounded ==
    \A r \in Ranks :
        /\ Superstep(r) <= nodeCount
        /\ iteration[r] <= nodeCount
        /\ loopExit[r] = "converged" =>
               (globalFlag[r] = 0 /\ Superstep(r) >= 1 /\ Superstep(r) = iteration[r] + 1)
        /\ loopExit[r] = "limit" =>
               /\ Superstep(r) = nodeCount /\ iteration[r] = nodeCount
               /\ nodeCount > 0 => globalFlag[r] # 0
        /\ pc[r] \in {"redEdges", "redUpdates", "redIters", "done"} => LoopEnded(r)

\* C7: for any edge weights every run ends: every process reaches the end
\* of main, after at most nodeCount supersteps, having left the loop either
\* as converged (global flag false) or at the iteration limit after exactly
\* nodeCount supersteps.
C7_Terminates == []C7_Bounded /\ <>AllDone

\* the negative cycle 0 -> 1 -> 0 in a graph of 3 nodes: three processes
\* end at the iteration limit after 3 supersteps, each of which lowered a
\* distance
C7_Witness ==
    /\ AllDone /\ size = 3 /\ nodeCount = 3 /\ source = 0
    /\ graph.nodes[0] = <<Edge(1, -1)>> /\ graph.nodes[1] = <<Edge(0, 0)>>
    /\ \A r \in Ranks : loopExit[r] = "limit" /\ Superstep(r) = 3
    /\ distances[0][0] = Fin(-1)

\* ------------------------------------------------------------------------
\* C8
\* ------------------------------------------------------------------------

\* no step raises distances[n] of any process
C8_NoRaise ==
    \A r \in Ranks : \A n \in NodeIds : DLeq(distances'[r][n], distances[r][n])

\* C8: every step of the engine leaves each distances[n] of each process
\* less than or equal to what it was, so the value after superstep k+1 is
\* at most the value after superstep k and after INIT.
C8_Monotone == [][C8_NoRaise]_vars

\* in superstep 2 a process lowered the distance of node 2 below the value
\* 1 that superstep 1 had given it
C8_Witness ==
    /\ nodeCount = 3 /\ source = 0
    /\ \E r \in Ranks :
           /\ Superstep(r) = 2 /\ localChanged[r]
           /\ distances[r][2] = Fin(0)
           /\ globalDistances[r][2] = Fin(1)

\* ------------------------------------------------------------------------
\* C9
\* ------------------------------------------------------------------------

\* the process is back from the initial reduction
AfterInit(r) ==
    pc[r] \notin {"load", "failed", "aborted", "barrier", "initSync"}

\* C9: with non-negative weights and an in-range source, distances[source]
\* is 0 on every process once it is back from the initial reduction, in
\* every later state.
C9_SourceStaysZero ==
    (NonNegative(graph) /\ InRange(graph, source)) =>
        \A r \in Ranks : AfterInit(r) => distances[r][source] = Fin(0)

\* source 1 lies on the cycle 1 -> 2 -> 1 of weight 0: the edge back into
\* the source has been examined and all processes have finished
C9_Witness ==
    /\ AllDone /\ size = 2 /\ nodeCount = 3 /\ source = 1
    /\ graph.nodes[1] = <<Edge(2, 0)>> /\ graph.nodes[2] = <<Edge(1, 0)>>
    /\ edgesRelaxed[0] >= 1
    /\ distances[0][1] = Fin(0)

\* ------------------------------------------------------------------------
\* C10
\* ------------------------------------------------------------------------

\* C10: a node that is not reachable from the source by directed edges
\* holds +infinity in the distance array and in the receive buffer of every
\* process, in every state.
C10_UnreachableStaysInfinite ==
    \A r \in Ranks : \A n \in NodeIds :
        n \notin Reachable(graph, source) =>
            (IsInf(distances[r][n]) /\ IsInf(globalDistances[r][n]))

\* Scenario B has finished on two processes: node 1 is at distance 1,
\* nodes 2 and 3 of the other component are at +infinity
C10_Witness ==
    /\ AllDone /\ size = 2 /\ nodeCount = 4 /\ source = 0
    /\ graph = loadFromFile(Graph(0), ScenarioB)
    /\ distances[0][1] = Fin(1)
    /\ IsInf(distances[0][2]) /\ IsInf(distances[0][3])
    /\ edgesRelaxed[0] + edgesRelaxed[1] > 0

\* ------------------------------------------------------------------------
\* C11
\* ------------------------------------------------------------------------

\* every process left the loop by the break: the last superstep ended with
\* the global flag 0
AllConverged == \A r \in Ranks : loopExit[r] = "converged"

\* one more local-relax phase of every process on the array it holds
RerunRelax == [r \in Ranks |-> RelaxLoop(r, distances[r])]

\* the distance reduction over the arrays of RerunRelax
RerunSync == ReduceMin([r \in Ranks |-> RerunRelax[r].d])

\* C11: once every process has left the loop with the global flag 0, one
\* more superstep on every process (its local relax, then the minimum
\* reduction of the arrays) changes no distance of any process, neither in
\* the relax phase nor by the reduction, makes no update (nothing is added
\* to localUpdates) and leaves every localChanged false.
C11_FixedPoint ==
    AllConverged =>
        \A r \in Ranks :
            /\ RerunRelax[r].d = distances[r]
            /\ RerunRelax[r].updates = 0
            /\ ~RerunRelax[r].changed
            /\ RerunSync = distances[r]

\* two processes have converged on the chain 1 -> 2 -> 0 after updates in
\* two supersteps; the superstep run once more examines both edges again
C11_Witness ==
    /\ AllConverged /\ size = 2 /\ source = 1 /\ nodeCount = 3
    /\ graph.nodes[1] = <<Edge(2, 1)>> /\ graph.nodes[2] = <<Edge(0, 1)>>
    /\ localUpdates[0] = 1 /\ localUpdates[1] = 1
    /\ RerunRelax[0].edges = 1 /\ RerunRelax[1].edges = 1

\* ------------------------------------------------------------------------
\* C12
\* ------------------------------------------------------------------------

\* the number of nodes of the chain the graph holds: one more than its edges
ChainLength == getEdgeCount(graph) + 1

\* C12 as claimed: on the chain of k nodes in a graph of at least k nodes
\* every process ends as converged, having executed exactly k-1 supersteps,
\* and k-1 is the count rank 0 receives.
C12_AsClaimed ==
    (AllDone /\ nodeCount >= ChainLength) =>
        /\ \A r \in Ranks :
               loopExit[r] = "converged" /\ Superstep(r) = ChainLength - 1
        /\ maxIterations_global = ChainLength - 1

\* the supersteps the engine executes on a chain of k nodes: one per hop
\* when consecutive nodes have different owners, and a last one without
\* update; a single process walks the whole chain in its first superstep
ChainSupersteps(k, procs) ==
    IF procs >= 2 THEN k ELSE IF k >= 2 THEN 2 ELSE 1

\* C12, amended: on the chain of k nodes in a graph of at least k nodes,
\* source 0, every process leaves the loop as converged, never at the
\* iteration limit, after exactly k supersteps when there are two or more
\* processes and after min(k, 2) supersteps when there is one; the last of
\* these supersteps makes no update, and the distances are 0, 1, ..., k-1.
C12_ChainSupersteps ==
    \A r \in Ranks :
        /\ (LoopEnded(r) /\ nodeCount >= ChainLength) =>
               /\ loopExit[r] = "converged"
               /\ Superstep(r) = ChainSupersteps(ChainLength, size)
               /\ ~localChanged[r]
               /\ \A n \in 0..(ChainLength - 1) : distances[r][n] = Fin(n)
        /\ (AllDone /\ nodeCount >= ChainLength) =>
               maxIterations_global = ChainSupersteps(ChainLength, size)

\* the chain of 4 nodes has finished on 2 processes after 4 supersteps
C12_Witness ==
    /\ AllDone /\ size = 2 /\ nodeCount = 4 /\ ChainLength = 4
    /\ maxIterations_global = 4
    /\ distances[0][3] = Fin(3)
    /\ \A r \in Ranks : loopExit[r] = "converged"

\* ------------------------------------------------------------------------
\* C13
\* ------------------------------------------------------------------------

\* the graph has the single node 0, which is the source
SingleNode == nodeCount = 1 /\ source = 0

\* C13 as claimed: on a single-node graph with source 0, distances[0] is 0
\* on every process back from the initial reduction, and the run ends with
\* a superstep count of 0.
C13_AsClaimed ==
    SingleNode =>
        /\ \A r \in Ranks : AfterInit(r) => distances[r][0] = Fin(0)
        /\ AllDone =>
               /\ maxIterations_global = 0
               /\ \A r \in Ranks : Superstep(r) = 0

\* C13, amended: on a single-node graph with source 0, distances[0] is 0
\* on every process back from the initial reduction and stays 0; every
\* process executes exactly one superstep, which makes no update and ends
\* with the global flag 0, and the run ends with a superstep count of 1.
C13_SingleNode ==
    SingleNode =>
        /\ \A r \in Ranks :
               /\ AfterInit(r) => (distances[r][0] = Fin(0) /\ Superstep(r) = 1)
               /\ LoopEnded(r) =>
                      /\ loopExit[r] = "converged"
                      /\ localUpdates[r] = 0
        /\ AllDone => maxIterations_global = 1

\* three processes have finished on a single-node graph
C13_Witness ==
    /\ SingleNode /\ AllDone /\ size = 3
    /\ distances[2][0] = Fin(0)
    /\ maxIterations_global = 1

\* ------------------------------------------------------------------------
\* C14
\* ------------------------------------------------------------------------

\* the array that is 0 at the source and +infinity at every other node
SourceOnly == [n \in NodeIds |-> IF n = source THEN Fin(0) ELSE Infinity]

\* the process has called the initial reduction and not returned from it:
\* distances[r] is the array it brought to it
InInitialReduction(r) == pc[r] = "initSync"

\* the process is back from the initial reduction, in the local relax of
\* superstep 1 or at its end, and has made no update since
FreshFromInit(r) ==
    Superstep(r) = 1 /\ localUpdates[r] = 0 /\ pc[r] \in {"relax", "sync"}

\* C14: with an in-range source, the array a process brings to the initial
\* reduction is +infinity everywhere, except that the one process that owns
\* the source holds 0 at the source; the initial reduction gives every
\* process, also for one process, the array that is 0 at the source and
\* +infinity elsewhere, and that is the array it enters SUPERSTEP with.
C14_Init ==
    InRange(graph, source) =>
        /\ Cardinality({r \in Ranks : source \in Range(myPartition[r])}) = 1
        /\ \A r \in Ranks :
               /\ InInitialReduction(r) =>
                      distances[r] =
                          IF r = getNodeOwnerRoundRobin(source, size)
                          THEN SourceOnly ELSE InfArray
               /\ (InInitialReduction(r) /\ r \in released) =>
                      globalDistances[r] = SourceOnly
               /\ FreshFromInit(r) => distances[r] = SourceOnly

\* source 1 is owned by rank 1 of three: rank 0 brought +infinity at node 1
\* to the initial reduction and is back from it with 0 there, while rank 2
\* has not returned from it yet
C14_Witness ==
    /\ size = 3 /\ source = 1 /\ nodeCount = 3
    /\ FreshFromInit(0) /\ distances[0][1] = Fin(0) /\ IsInf(localBefore[0][1])
    /\ InInitialReduction(2) /\ 2 \in released /\ IsInf(distances[2][1])
    /\ localBefore[1][1] = Fin(0)

\* ------------------------------------------------------------------------
\* C15
\* ------------------------------------------------------------------------

\* C15: processes that have left the superstep loop have executed the same
\* number of supersteps, whichever way the loop ended, and the count rank 0
\* receives from the MPI_MAX reduction is the count of every process.
C15_SameSuperstepCount ==
    /\ \A r, s \in Ranks :
           (LoopEnded(r) /\ LoopEnded(s)) =>
               iterationsCompleted[r] = iterationsCompleted[s]
    /\ AllDone =>
           \A r \in Ranks : maxIterations_global = iterationsCompleted[r]

\* three processes have finished after 2 supersteps each, although rank 0
\* examined edges and rank 2 examined none
C15_Witness ==
    /\ AllDone /\ size = 3 /\ nodeCount = 3
    /\ maxIterations_global = 2
    /\ \A r \in Ranks : iterationsCompleted[r] = 2
    /\ edgesRelaxed[0] > 0 /\ edgesRelaxed[2] = 0

\* ------------------------------------------------------------------------
\* C16
\* ------------------------------------------------------------------------

\* this step is process r examining one edge in its relax loop
Examines(r) ==
    pc[r] = "relax" /\ (pc'[r] # pc[r] \/ pi'[r] # pi[r] \/ ei'[r] # ei[r])

\* the node whose edge process r examines next, and that edge
ScannedNode(r) == myPartition[r][pi[r]]

ScannedEdge(r) == graph.nodes[ScannedNode(r)][ei[r]]

\* the edge process r examines next gives a strictly smaller distance
StrictlyImproves(r) ==
    DLess(DPlus(distances[r][ScannedNode(r)], ScannedEdge(r).weight),
          distances[r][ScannedEdge(r).destination])

\* Examining an edge adds one to edgesRelaxed whether or not it improves,
\* and one to localUpdates exactly when it strictly improves; the edge is
\* an edge of a node the process owns whose distance is finite; no other
\* step changes either counter.
C16_Counting ==
    \A r \in Ranks :
        IF Examines(r)
        THEN /\ getNodeOwnerRoundRobin(ScannedNode(r), size) = r
             /\ ~IsInf(distances[r][ScannedNode(r)])
             /\ edgesRelaxed'[r] = edgesRelaxed[r] + 1
             /\ localUpdates'[r] =
                    localUpdates[r] + (IF StrictlyImproves(r) THEN 1 ELSE 0)
        ELSE /\ edgesRelaxed'[r] = edgesRelaxed[r]
             /\ localUpdates'[r] = localUpdates[r]

RECURSIVE SumUpTo(_, _)
\* f[0] + ... + f[r]
SumUpTo(f, r) == IF r < 0 THEN 0 ELSE SumUpTo(f, r - 1) + f[r]

\* localUpdates <= edgesRelaxed on every process, and the totals rank 0
\* has received are the sums of the processes' counters
C16_Totals ==
    /\ \A r \in Ranks : 0 <= localUpdates[r] /\ localUpdates[r] <= edgesRelaxed[r]
    /\ AllDone =>
           /\ totalEdgesRelaxed = SumUpTo(edgesRelaxed, size - 1)
           /\ totalLocalUpdates = SumUpTo(localUpdates, size - 1)

\* C16: edgesRelaxed grows by one for every edge a process examines (edges
\* of owned nodes with a finite distance), improving or not, localUpdates
\* by one exactly for each strict improvement; the counters never decrease,
\* localUpdates <= edgesRelaxed, and the reported totals are the sums of
\* the per-process counters.
C16_Statistics == []C16_Totals /\ [][C16_Counting]_vars

\* three processes have finished on 0 -> 1, 1 -> 0, 2 -> 0 from source 2:
\* rank 0 examined 2 edges and updated once, rank 1 examined 1 edge without
\* an update, rank 2 examined 3 edges and updated once; the totals are 6
\* and 2
C16_Witness ==
    /\ AllDone /\ size = 3 /\ source = 2
    /\ edgesRelaxed = (0 :> 2) @@ (1 :> 1) @@ (2 :> 3)
    /\ localUpdates = (0 :> 1) @@ (1 :> 0) @@ (2 :> 1)
    /\ totalEdgesRelaxed = 6 /\ totalLocalUpdates = 2

\* ------------------------------------------------------------------------
\* C17
\* ------------------------------------------------------------------------

\* the load has failed on some process, which has not called MPI_Abort yet
LoadFailed == \E r \in Ranks : pc[r] = "failed"

\* every process has been terminated by MPI_Abort
Aborted == \A r \in Ranks : pc[r] = "aborted"

\* once a load has failed no process is beyond the call of MPI_Barrier,
\* which has not completed: no superstep has begun and rank 0 is not at the
\* report
C17_NothingRuns ==
    (LoadFailed \/ Aborted) =>
        /\ released = {}
        /\ \A s \in Ranks :
               /\ pc[s] \in {"load", "failed", "barrier", "aborted"}
               /\ iterationsCompleted[s] = 0

\* C17: when the load fails on a process, every process is terminated: no
\* process begins a superstep, the processes blocked in MPI_Barrier do not
\* stay there for ever, all end aborted and stay so, and rank 0 never
\* reaches the report.
C17_AbortsCohort ==
    /\ []C17_NothingRuns
    /\ LoadFailed ~> Aborted
    /\ [][Aborted => Aborted']_vars

\* three processes were terminated after ranks 0 and 2 had loaded the
\* graph and were blocked in MPI_Barrier, rank 1 having failed
C17_Witness ==
    /\ Aborted /\ size = 3 /\ nodeCount = 3
    /\ myPartition = (0 :> <<0>>) @@ (1 :> <<>>) @@ (2 :> <<2>>)

\* ------------------------------------------------------------------------
\* C18
\* ------------------------------------------------------------------------

\* the last call on the Graph was loadFromFile
LoadCalled == call.op = "loadFromFile"

\* the header of the file yields a node count and an edge count: its first
\* two tokens are numbers
HeaderYieldsCounts(file) ==
    /\ Len(file.tokens) >= 2
    /\ file.tokens[1].num /\ file.tokens[2].num

\* C18 as claimed: loadFromFile returns false whenever the file cannot be
\* opened, and whenever its header does not yield a node count and an edge
\* count.
C18_AsClaimed ==
    LoadCalled =>
        ((~call.file.opened \/ ~HeaderYieldsCounts(call.file)) => ~call.ret)

\* ------------------------------------------------------------------------
\* C19
\* ------------------------------------------------------------------------

\* the file holds a header and every edge record the header announces,
\* three numbers each
ReadInFull(file) ==
    /\ file.opened
    /\ HeaderYieldsCounts(file)
    /\ Len(file.tokens) >= 2 + 3 * file.tokens[2].val
    /\ \A i \in 3..(2 + 3 * file.tokens[2].val) : file.tokens[i].num

\* C19 as claimed: loadFromFile returns true only for a file that could be
\* read in full (it never succeeds with a partial graph), and when it
\* returns false the Graph is as it was before the call.
C19_AsClaimed ==
    LoadCalled =>
        /\ call.ret => ReadInFull(call.file)
        /\ ~call.ret => graph = call.before

\* ------------------------------------------------------------------------
\* C20
\* ------------------------------------------------------------------------

\* the last call on the Graph was addEdge
AddEdgeCalled == call.op = "addEdge"

\* both endpoints of the last addEdge were nodes of the Graph it was
\* called on
EndpointsInRange ==
    /\ 0 <= call.from /\ call.from < call.before.nodeCount
    /\ 0 <= call.to /\ call.to < call.before.nodeCount

\* C20: addEdge(from, to, w) with an endpoint outside [0, nodeCount) leaves
\* the Graph as it was: every adjacency list and edgeCount, which so stays
\* below the number of edges requested.  With both endpoints in range the
\* edge (to, w) is the new last entry of from's list, edgeCount is one
\* more, and every other list and nodeCount are as before.
C20_AddEdgeFrame ==
    AddEdgeCalled =>
        IF EndpointsInRange
        THEN /\ graph.nodes[call.from] =
                    Append(call.before.nodes[call.from], Edge(call.to, call.weight))
             /\ graph.edgeCount = call.before.edgeCount + 1
             /\ graph.nodeCount = call.before.nodeCount
             /\ DOMAIN graph.nodes = DOMAIN call.before.nodes
             /\ \A n \in DOMAIN graph.nodes :
                    n # call.from => graph.nodes[n] = call.before.nodes[n]
        ELSE graph = call.before

\* one edge was stored, then addEdge(0, 2, 1) on the Graph of 2 nodes was
\* dropped: two edges requested, edgeCount 1
C20_Witness ==
    /\ AddEdgeCalled /\ ~EndpointsInRange
    /\ call.from = 0 /\ call.to = 2 /\ call.before.nodeCount = 2
    /\ graph.nodes[0] = <<Edge(1, 1)>> /\ getEdgeCount(graph) = 1

\* ------------------------------------------------------------------------
\* C21
\* ------------------------------------------------------------------------

\* every edge stored in g leads to a node of g
DestinationsInRange(g) ==
    \A u \in DOMAIN g.nodes :
        \A i \in DOMAIN g.nodes[u] : InRange(g, g.nodes[u][i].destination)

\* C21 as claimed: after any sequence of the constructor, setNodeCount,
\* addEdge, addBidirectionalEdge and loadFromFile, every edge stored in an
\* adjacency list has a destination d with 0 <= d < nodeCount.
C21_AsClaimed == DestinationsInRange(graph)

\* ------------------------------------------------------------------------
\* C22
\* ------------------------------------------------------------------------

\* the reports written so far, by any process
Reports ==
    {o \in UNION {Range(output[r]) : r \in Ranks} : o.kind = "report"}

\* the destination of report o is a node that no path from the source reaches:
\* its distance on rank 0 is +infinity at the end
Unreachable(o) ==
    /\ o.destination \in DOMAIN distances[0]
    /\ IsInf(distances[0][o.destination])

\* C22 as claimed: when the destination is unreachable (its final distance is
\* +infinity) the final report states "no path" and prints no numeric value.
C22_AsClaimed ==
    \A o \in Reports : Unreachable(o) => o.distance.text = "no path"

\* ------------------------------------------------------------------------
\* C23
\* ------------------------------------------------------------------------

ShowsReduced(o) ==
    /\ o.iterations = ReduceMax(iterationsCompleted)
    /\ o.totalEdgesRelaxed = ReduceSum(edgesRelaxed)
    /\ o.distanceUpdates = ReduceSum(localUpdates)

Tie(r) ==
    DPlus(distances[r][ScannedNode(r)], ScannedEdge(r).weight) =
        distances[r][ScannedEdge(r).destination]

\* examining an edge whose candidate equals the current distance changes
\* neither the array, nor the changed flag, nor localUpdates, and counts the
\* edge
C24_TieStep ==
    \A r \in Ranks :
        (Examines(r) /\ Tie(r)) =>
            /\ distances'[r] = distances[r]
            /\ localChanged'[r] = localChanged[r]
            /\ localUpdates'[r] = localUpdates[r]
            /\ edgesRelaxed'[r] = edgesRelaxed[r] + 1

\* C24: relaxation uses strict less-than: when the candidate
\* distance[u] + w equals distance[v], the worker leaves distance[v]
\* unchanged, does not set its changed flag, does not increment
\* localUpdates, and still counts the edge in edgesRelaxed.
C24_StrictLess == [][C24_TieStep]_vars

\* a process has just examined the edge 2 -> 1 of weight 1 while node 1 had
\* distance 1 and node 2 distance 0: a tie, counted and nothing else; it is
\* on its way to the distance reduction with its flag still false
C24_Witness ==
    /\ nodeCount = 3 /\ source = 0
    /\ \E r \in Ranks :
           /\ pc[r] = "sync" /\ ~localChanged[r]
           /\ Superstep(r) = 2
           /\ edgesRelaxed[r] >= 1
           /\ Len(myPartition[r]) = 1 /\ myPartition[r][1] = 2
           /\ getAdjacencyList(graph, 2) = <<Edge(1, 1)>>
           /\ distances[r][2] = Fin(0)
           /\ distances[r][1] = Fin(1)

\* ------------------------------------------------------------------------
\* C25
\* ------------------------------------------------------------------------

\* partition s is the ascending list r, r+P, r+2P, ... for r = rank and
\* P = procs
Ascending(s, rank, procs) ==
    \A i \in DOMAIN s : s[i] = rank + (i - 1) * procs

\* C25: the owner function agrees with the partition function: node n is in
\* getRoundRobinPartition(graph, r, P) exactly when
\* getNodeOwnerRoundRobin(n, P) = n mod P = r, for every P >= 1, every rank r
\* and every node n; each partition lists its nodes in ascending order
\* r, r+P, r+2P, ...
C25_OwnerAgrees ==
    \A r \in Ranks :
        Partitioned(r) =>
            /\ \A n \in NodeIds :
                   n \in Range(myPartition[r]) <=>
                       (getNodeOwnerRoundRobin(n, size) = r /\ n % size = r)
            /\ Ascending(myPartition[r], r, size)

\* rank 2 of 3 processes has partitioned 7 nodes and owns 2 and 5, rank 0 of
\* the same run owns 0, 3 and 6
C25_Witness ==
    /\ size = 3 /\ nodeCount = 7
    /\ Partitioned(0) /\ Partitioned(2)
    /\ myPartition[2] = <<2, 5>>
    /\ myPartition[0] = <<0, 3, 6>>

\* ------------------------------------------------------------------------
\* C26
\* ------------------------------------------------------------------------

\* process r holds the global flag of its superstep: the flag reduction has
\* completed and r has not gone on; distances[r] is the shared array after
\* the synchronize step, startDistances[r] the shared array the superstep
\* began with
HoldsGlobalFlag(r) == pc[r] = "flag" /\ r \in released

\* some shared distance is strictly smaller after the synchronize step than
\* at the start of the superstep
SomeDecrease(r) ==
    \E n \in NodeIds : DLess(distances[r][n], startDistances[r][n])

\* C26: in every superstep the global changed flag is true if and only if
\* the shared distance array after the synchronize step differs from the
\* shared array at the start of that superstep; a true flag comes with a
\* strict decrease of at least one shared distance.
C26_FlagIffChanged ==
    \A r \in Ranks :
        HoldsGlobalFlag(r) =>
            /\ (globalFlag[r] = 1) <=> (distances[r] # startDistances[r])
            /\ globalFlag[r] \in {0, 1}
            /\ globalFlag[r] = 1 => SomeDecrease(r)

\* superstep 2 of three processes has ended with a true flag: node 2 went
\* from +infinity to 1 while node 1 kept its distance
C26_Witness ==
    /\ size = 3 /\ nodeCount = 3 /\ source = 0
    /\ \A r \in Ranks : HoldsGlobalFlag(r) /\ Superstep(r) = 2
    /\ globalFlag[0] = 1
    /\ IsInf(startDistances[0][2]) /\ distances[0][2] = Fin(1)
    /\ startDistances[0][1] = distances[0][1]

\* ------------------------------------------------------------------------
\* C27
\* ------------------------------------------------------------------------

\* no path weight considered lies beyond this, in either direction
WeightCap(g) == (getEdgeCount(g) + 1) * (MaxWeight + NegWeight)

\* <<u, w>> extended by the edges of u
Extensions(g, x) ==
    {<<g.nodes[x[1]][i].destination, x[2] + g.nodes[x[1]][i].weight>> :
        i \in DOMAIN g.nodes[x[1]]}

RECURSIVE WalksFrom(_, _)
\* the pairs <<v, w>> such that some directed path from a node u to v,
\* <<u, w0>> in S, has weight w - w0
WalksFrom(g, S) ==
    LET T == S \cup {y \in UNION {Extensions(g, x) : x \in S} :
                        /\ InRange(g, y[1])
                        /\ y[2] \in (0 - WeightCap(g))..WeightCap(g)}
    IN  IF T = S THEN S ELSE WalksFrom(g, T)

\* the pairs <<v, w>>: some directed path from src to v has weight w
PathWeights(g, src) ==
    IF InRange(g, src) THEN WalksFrom(g, {<<src, 0>>}) ELSE {}

\* d is sound, for the set weights of the path weights and the array
\* shortest of the shortest distances: a finite d[v] is the weight of a path
\* from the source to v and, with non-negative weights, is not below the
\* shortest distance
Sound(d, weights, shortest) ==
    \A v \in DOMAIN d :
        /\ ~IsInf(d[v]) => <<v, d[v].val>> \in weights
        /\ NonNegative(graph) => DLeq(shortest[v], d[v])

\* C27: every intermediate state is sound: each finite distance[v] on every
\* worker, at every point of the run, is the weight of some directed path
\* from the source to v, and so with non-negative weights never below the
\* true shortest distance.
C27_Sound ==
    LET weights == PathWeights(graph, source)
        shortest == ShortestDistances(graph, source)
    IN  \A r \in Ranks :
            /\ Sound(distances[r], weights, shortest)
            /\ Sound(globalDistances[r], weights, shortest)

\* a worker in its relax phase holds for node 1 the weight 1 of the path
\* 0 -> 1 while the path over node 2 has weight 0: a sound value that is not
\* yet the shortest distance
C27_Witness ==
    /\ nodeCount = 3 /\ source = 0
    /\ ShortestDistances(graph, source)[1] = Fin(0)
    /\ \E r \in Ranks :
           /\ pc[r] = "relax" /\ localUpdates[r] >= 1
           /\ distances[r][1] = Fin(1)

\* ------------------------------------------------------------------------
\* C28
\* ------------------------------------------------------------------------

\* the least weight of a path from src to each node among the paths of at
\* most j edges
WithinEdges(g, src, j) ==
    PathRounds(g, [v \in DOMAIN g.nodes |-> IF v = src THEN Fin(0) ELSE Infinity], j)

\* node v has a shortest path of at most j edges
ShortestWithin(g, src, j, v) ==
    /\ ~IsInf(ShortestDistances(g, src)[v])
    /\ WithinEdges(g, src, j)[v] = ShortestDistances(g, src)[v]

\* the process is back from the synchronize step of its superstep and has
\* not begun the next
Synchronized(r) == pc[r] = "flag"

\* C28: with non-negative weights, after the synchronize step of superstep j
\* every node that has a shortest path of at most j edges holds its final
\* shortest distance on every worker, for any number of processes.
C28_Progress ==
    NonNegative(graph) =>
        \A r \in Ranks :
            Synchronized(r) =>
                \A v \in NodeIds :
                    ShortestWithin(graph, source, Superstep(r), v) =>
                        distances[r][v] = ShortestDistances(graph, source)[v]

\* three processes are back from the synchronize step of superstep 1 on
\* 0 -> 2 -> 1: node 2, one edge from the source, holds its final distance
\* on each of them; node 1, two edges away, does not yet
C28_Witness ==
    /\ size = 3 /\ nodeCount = 3 /\ source = 0
    /\ \A r \in Ranks : Synchronized(r) /\ Superstep(r) = 1
    /\ ShortestWithin(graph, source, 1, 2)
    /\ ~ShortestWithin(graph, source, 1, 1)
    /\ ShortestWithin(graph, source, 2, 1)
    /\ \A r \in Ranks :
           /\ distances[r][2] = ShortestDistances(graph, source)[2]
           /\ IsInf(distances[r][1])

\* ------------------------------------------------------------------------
\* C29
\* ------------------------------------------------------------------------

\* C29: with non-negative weights and nodeCount >= 1 the engine never ends
\* in ITERATION_LIMIT_REACHED: whatever the graph, the source and the number
\* of processes, a process that has left the loop left it by the
\* convergence exit, with a false global flag in its last superstep, which
\* is at the latest superstep number nodeCount.
C29_NeverLimit ==
    (NonNegative(graph) /\ nodeCount >= 1) =>
        \A r \in Ranks :
            LoopEnded(r) =>
                /\ loopExit[r] = "converged"
                /\ globalFlag[r] = 0
                /\ Superstep(r) >= 1 /\ Superstep(r) <= nodeCount

\* three processes have finished on the chain 0 -> 1 -> 2 from source 0 by
\* the convergence exit in superstep 3 = nodeCount, the last one the cap
\* allows
C29_Witness ==
    /\ AllDone /\ size = 3 /\ nodeCount = 3 /\ source = 0
    /\ graph.nodes[0] = <<Edge(1, 1)>>
    /\ graph.nodes[1] = <<Edge(2, 1)>>
    /\ \A r \in Ranks : loopExit[r] = "converged" /\ Superstep(r) = 3

\* ------------------------------------------------------------------------
\* C30
\* ------------------------------------------------------------------------

\* the calls that are collective operations
Collectives ==
    {"barrier", "initSync", "sync", "flag", "redEdges", "redUpdates", "redIters"}

\* the process is blocked in a collective that has not completed for it
InCollective(r) == pc[r] \in Collectives /\ r \notin released

\* the collective the process is in: its name and the superstep it belongs to
CollectiveOf(r) == <<pc[r], Superstep(r)>>

\* two processes blocked in collectives are in the same one
C30_SameCollective ==
    \A r, s \in Ranks :
        (InCollective(r) /\ InCollective(s)) => CollectiveOf(r) = CollectiveOf(s)

\* a collective completes only when all processes have joined that very
\* collective
C30_JoinedByAll ==
    (released = {} /\ released' = Ranks) =>
        \A r \in Ranks : InCollective(r) /\ CollectiveOf(r) = CollectiveOf(0)

\* a process with an empty partition takes part in the supersteps like the
\* others
C30_EmptyPartitionJoins ==
    \A r, s \in Ranks : (LoopEnded(r) /\ LoopEnded(s)) => Superstep(r) = Superstep(s)

\* C30: deadlock freedom of the collective protocol: every worker issues the
\* same sequence of collectives (barrier, initial all-reduce, per superstep
\* one distance and one flag all-reduce, three statistic reductions), also
\* with an empty partition (P > nodeCount); in a run without load failure
\* every collective is joined by all P workers and every worker eventually
\* reaches the end of the program.
C30_DeadlockFree ==
    /\ [](C30_SameCollective /\ C30_EmptyPartitionJoins)
    /\ [][C30_JoinedByAll]_vars
    /\ <>AllDone

\* three processes on a graph of one node, two of them with an empty
\* partition, have all reached the end of the program after one superstep
C30_Witness ==
    /\ AllDone /\ size = 3 /\ nodeCount = 1 /\ source = 0
    /\ myPartition[1] = <<>> /\ myPartition[2] = <<>>
    /\ \A r \in Ranks : Superstep(r) = 1
    /\ Len(output[0]) = 1

\* ------------------------------------------------------------------------
\* C31
\* ------------------------------------------------------------------------

RECURSIVE StoredFrom(_, _)
\* the number of edges in the adjacency lists of the nodes i, i+1, ...
StoredFrom(g, i) ==
    IF i \notin DOMAIN g.nodes THEN 0 ELSE Len(g.nodes[i]) + StoredFrom(g, i + 1)

\* the number of edges stored in all adjacency lists of g
StoredEdges(g) == StoredFrom(g, 0)

\* the file saveToFile has just written
Saved == call.op = "saveToFile" /\ call.ret

\* the edge count in the header of the file written, and the number of edge
\* lines after the header (three tokens each)
HeaderEdgeCount == call.file.tokens[2].val

EdgeLinesWritten == (Len(call.file.tokens) - 2) \div 3

\* C31 as claimed: after any sequence of the constructor, setNodeCount,
\* addEdge, addBidirectionalEdge and loadFromFile, edgeCount equals the
\* number of edges stored in all adjacency lists, so the edge count in the
\* header saveToFile writes equals the number of edge lines it writes.
C31_AsClaimed ==
    /\ getEdgeCount(graph) = StoredEdges(graph)
    /\ Saved => HeaderEdgeCount = EdgeLinesWritten

\* ------------------------------------------------------------------------
\* C32
\* ------------------------------------------------------------------------

\* the weights of the edges from u to v
EdgeWeightsBetween(g, u, v) ==
    {g.nodes[u][i].weight : i \in {j \in DOMAIN g.nodes[u] :
                                      g.nodes[u][j].destination = v}}

RECURSIVE PathSums(_, _, _)
\* the sums of edge weights along path from its entry i on, one per choice
\* among parallel edges
PathSums(g, path, i) ==
    IF i >= Len(path) THEN {0}
    ELSE {w + s : w \in EdgeWeightsBetween(g, path[i], path[i + 1]),
                  s \in PathSums(g, path, i + 1)}

\* result is what a shortest-path oracle owes for src and destination in g
OracleResult(g, src, destination, result) ==
    /\ result.found <=> destination \in Reachable(g, src)
    /\ result.found =>
           /\ result.path # <<>>
           /\ result.path[1] = src
           /\ result.path[Len(result.path)] = destination
           /\ \A i \in 1..(Len(result.path) - 1) :
                  EdgeWeightsBetween(g, result.path[i], result.path[i + 1]) # {}
           /\ ~IsInf(result.totalDistance)
           /\ result.totalDistance.val \in PathSums(g, result.path, 1)
           /\ result.totalDistance = ShortestDistances(g, src)[destination]
    /\ ~result.found =>
           /\ result.path = <<>>
           /\ IsInf(result.totalDistance)

\* C32: for non-negative weights and source and destination in range,
\* sequentialDijkstra returns found = true exactly when the destination is
\* reachable from the source; when found, the path starts at the source,
\* ends at the destination, consecutive path nodes are joined by an edge,
\* and totalDistance is the sum of the weights along the path and the
\* shortest distance; when not found the path is empty and totalDistance is
\* +infinity.
C32_Dijkstra ==
    (call.op = "sequentialDijkstra" /\ NonNegative(graph)) =>
        OracleResult(graph, call.from, call.to, call.result)

\* sequentialDijkstra has returned the path 0, 1, 2 for a graph that also
\* has the edge 0 -> 2, which is longer than the way over node 1
C32_Witness ==
    /\ call.op = "sequentialDijkstra" /\ call.from = 0 /\ call.to = 2
    /\ call.result.found /\ call.result.path = <<0, 1, 2>>
    /\ call.result.totalDistance = Fin(0)
    /\ EdgeWeightsBetween(graph, 0, 2) = {1}

\* ------------------------------------------------------------------------
\* C33
\* ------------------------------------------------------------------------

\* C33 as claimed: the A* variant is an equivalent oracle: for every graph
\* with non-negative weights, every assignment of node coordinates and
\* every source and destination in range, sequentialAStarDijkstra returns
\* the same found flag and the same totalDistance as sequentialDijkstra.
C33_AsClaimed ==
    (call.op = "sequentialAStarDijkstra" /\ NonNegative(graph)) =>
        \E d \in sequentialDijkstra(graph, call.from, call.to) :
            /\ d.found = call.result.found
            /\ d.totalDistance = call.result.totalDistance

\* ------------------------------------------------------------------------
\* C34
\* ------------------------------------------------------------------------

\* the root has called broadcastTerminate
TerminateSent == bcast[0] # "idle"

\* the last checkTerminate of process r returned true
SawTerminate(r) == r \in Ranks /\ checkResult[r] = "true"

\* C34 as claimed: after the root has called broadcastTerminate, a
\* checkTerminate call made afterwards by any other worker eventually
\* returns true; and checkTerminate never returns true when no termination
\* signal was sent.
C34_AsClaimed ==
    /\ \A r \in 1..(MaxProcs - 1) :
           (r \in Ranks /\ TerminateSent) ~> SawTerminate(r)
    /\ [](\A r \in Ranks : SawTerminate(r) => TerminateSent)

=============================================================================
